---------------------------- MODULE Spec2Model ----------------------------
(***************************************************************************)
(* A model of the nba-career-analytics frontend: the two radar components  *)
(* (RadarChart, CountingGeometrySpider), the trajectory chart              *)
(* (CareerChart, both versions found in the source), the data-fetching    *)
(* effects of App, its player list with the filters and the selection      *)
(* effect, and the headshot images with their fallback chains.             *)
(*                                                                         *)
(* JavaScript numbers are modelled as exact rationals [tag, n, d] with     *)
(* d > 0 and gcd(n, d) = 1, next to the non-finite results NaN and         *)
(* +-Infinity and the absent values null and undefined.  A comparison of   *)
(* two quotients of small integers gives the same answer in IEEE doubles   *)
(* as in the rationals (division is correctly rounded, hence monotonic,    *)
(* and 0 and 1 are representable).                                         *)
(***************************************************************************)
EXTENDS Integers, Sequences, FiniteSets, TLC

VARIABLES
    \* ---- radar components (props and what a render computed) ----
    radarComponent,   \* "none" | "RadarChart" | "CountingGeometrySpider"
    radarSeries,      \* props.data.series: sequence of [axis key -> value]
    radarRendered,    \* whether the component has rendered these props
    radarMax,         \* RadarChart's maxPerAxis
    radarVals,        \* per series, per axis: the value scaling the vertex radius
    radarPaths,       \* per series: the polygon path, a sequence of commands
    radarColors       \* per series: the colour it is drawn in

radarVars == <<radarComponent, radarSeries, radarRendered, radarMax, radarVals,
               radarPaths, radarColors>>

VARIABLES
    \* ---- App: selection and the data fetched for it ----
    \* A payload is modelled by the id of the player it was fetched for;
    \* NoData (0) stands for the initial [] / "" / null / {series: []}.
    selected,         \* selected player id, NoPlayer for null
    effectPending,    \* selected changed and the [selected] effect has not run yet
    inflight,         \* requests issued and not yet settled: [kind, id, seq]
    issued,           \* how many times the fetch effect has issued requests
    trajectory,
    comps,
    label,
    projection,
    forecast,
    countingGeometry,
    countingStatus,   \* TRUE when a counting-geometry error message is set
    radar,
    loading,
    error,            \* TRUE when an error message is set
    anyRejected       \* history: some fetch issued so far was rejected

appVars == <<selected, effectPending, inflight, issued, trajectory, comps, label,
             projection, forecast, countingGeometry, countingStatus, radar,
             loading, error, anyRejected>>

VARIABLES
    \* ---- CareerChart (props and what a render computed) ----
    chartVersion,     \* 0: not mounted, 1: the first version, 2: the one with a comparison series
    chartTrajectory,  \* props.trajectory: sequence of [season, value_score]
    chartComparison,  \* props.comparisonTrajectory (version 2)
    chartRendered,    \* whether the component has rendered these props
    chartEmpty,       \* the "No data available." card was returned
    chartCoords,      \* coords: the points handed to buildSmoothPath
    chartCompCoords,  \* compCoords
    chartPath,        \* path: sequence of path commands [op, pts]
    chartCompPath,    \* compPath
    chartMarkers,     \* the circles drawn for the primary series: [season, cx, cy]
    chartCompMarkers, \* the circles drawn for the comparison series
    chartTicks        \* ticks (version 2)

chartVars == <<chartVersion, chartTrajectory, chartComparison, chartRendered,
               chartEmpty, chartCoords, chartCompCoords, chartPath,
               chartCompPath, chartMarkers, chartCompMarkers, chartTicks>>

VARIABLES
    \* ---- headshot images ----
    \* ProfileCard keeps its chain in React state
    playerId,         \* player?.player_id, NoPlayer when there is none
    src,
    triedAlternate,
    triedLegacy,
    srcBeforeReset,   \* history: src at the moment the player last changed
    profileLoads,     \* the sources the <img> was given for the current player, in order
    \* SimilarList and LegendTree keep the stage on the <img> element itself
    similarImg,       \* one card of SimilarList: [playerId, src, stage], or NoImg
    similarLoads,     \* the sources that element was given, in order
    legendImg,        \* the "Selected" node of LegendTree: [playerId, src, stage], or NoImg
    legendLoads       \* the sources that element was given for the current player

headshotVars == <<playerId, src, triedAlternate, triedLegacy, srcBeforeReset,
                  profileLoads, similarImg, similarLoads, legendImg, legendLoads>>

VARIABLES
    \* ---- App: the player list, its filters and the selection effect ----
    players,          \* the list fetchPlayers answered with, <<>> before
    playersResponse,  \* what fetchPlayers will answer with
    playersSettled,   \* the fetchPlayers promise has settled
    seasonFilter,     \* a season, or NoFilter for "all"
    currentFilter,    \* "all" | "yes" | "no"
    selectionPending, \* filteredPlayers or selected changed and the
                      \* [filteredPlayers, selected] effect has not run yet
    effectOutcome     \* history: what that effect did when it last ran

listVars == <<players, playersResponse, playersSettled, seasonFilter,
              currentFilter, selectionPending, effectOutcome>>

vars == <<radarVars, appVars, chartVars, headshotVars, listVars>>

\* What a step of one part leaves alone
RadarOnly == UNCHANGED <<appVars, chartVars, headshotVars, listVars>>
AppOnly == UNCHANGED <<radarVars, chartVars, headshotVars, listVars>>
ChartOnly == UNCHANGED <<radarVars, appVars, headshotVars, listVars>>
HeadshotOnly == UNCHANGED <<radarVars, appVars, chartVars, listVars>>
\* The list handlers write selected and schedule the [selected] effect; the
\* fetched data is left as it is
SelectionOnly ==
    UNCHANGED <<radarVars, chartVars, headshotVars, inflight, issued, trajectory,
                comps, label, projection, forecast, countingGeometry,
                countingStatus, radar, loading, anyRejected>>

----------------------------------------------------------------------------
(* JavaScript values *)

Abs(i) == IF i < 0 THEN -i ELSE i

RECURSIVE GCD(_, _)
GCD(a, b) == IF b = 0 THEN a ELSE GCD(b, a % b)

\* The rational n/d (d # 0) in lowest terms with a positive denominator.
Num(n, d) ==
    LET g == GCD(Abs(n), Abs(d))
        s == IF d < 0 THEN -1 ELSE 1
    IN  [tag |-> "num", n |-> s * (n \div g), d |-> s * (d \div g)]

Whole(i) == [tag |-> "num", n |-> i, d |-> 1]
Null == [tag |-> "null", n |-> 0, d |-> 1]
Undefined == [tag |-> "undefined", n |-> 0, d |-> 1]
NaN == [tag |-> "nan", n |-> 0, d |-> 1]
\* A string that does not parse as a number (what a malformed payload carries).
NonNumeric == [tag |-> "string", n |-> 0, d |-> 1]
Infinity(sign) == [tag |-> "inf", n |-> sign, d |-> 1]
\* The boolean true, which a payload may carry where a number is expected
JsTrue == [tag |-> "bool", n |-> 1, d |-> 1]

Sign(v) == IF v.n > 0 THEN 1 ELSE IF v.n < 0 THEN -1 ELSE 0

\* v !== null && v !== undefined
Present(v) == v.tag # "null" /\ v.tag # "undefined"

\* a < b, a <= b on finite numbers (cross-multiplication, denominators > 0)
Lt(a, b) == LET g == GCD(a.d, b.d) IN a.n * (b.d \div g) < b.n * (a.d \div g)
Le(a, b) == LET g == GCD(a.d, b.d) IN a.n * (b.d \div g) <= b.n * (a.d \div g)

\* Arithmetic on numbers (finite, +-Infinity, NaN): NaN propagates,
\* Infinity - Infinity and Infinity * 0 are NaN.
Add(a, b) ==
    CASE a.tag = "num" /\ b.tag = "num" ->
            LET g == GCD(a.d, b.d)
            IN  Num(a.n * (b.d \div g) + b.n * (a.d \div g), (a.d \div g) * b.d)
      [] a.tag = "inf" /\ b.tag = "num" -> a
      [] a.tag = "num" /\ b.tag = "inf" -> b
      [] a.tag = "inf" /\ b.tag = "inf" -> IF a.n = b.n THEN a ELSE NaN
      [] OTHER -> NaN

Sub(a, b) == Add(a, [b EXCEPT !.n = -b.n])

Mul(a, b) ==
    CASE a.tag = "num" /\ b.tag = "num" ->
            LET g == GCD(Abs(a.n), b.d)
                h == GCD(Abs(b.n), a.d)
            IN  Num((a.n \div g) * (b.n \div h), (a.d \div h) * (b.d \div g))
      [] a.tag \in {"num", "inf"} /\ b.tag \in {"num", "inf"} ->
            IF a.n = 0 \/ b.n = 0 THEN NaN ELSE Infinity(Sign(a) * Sign(b))
      [] OTHER -> NaN

\* a / b: x/0 is +-Infinity, 0/0 is NaN.
Div(a, b) ==
    CASE a.tag = "num" /\ b.tag = "num" ->
            IF b.n = 0
            THEN IF a.n = 0 THEN NaN ELSE Infinity(Sign(a))
            ELSE LET g == GCD(Abs(a.n), Abs(b.n))
                     h == GCD(a.d, b.d)
                 IN  Num((a.n \div g) * (b.d \div h), (a.d \div h) * (b.n \div g))
      [] a.tag = "inf" /\ b.tag = "num" ->
            Infinity(IF b.n < 0 THEN -a.n ELSE a.n)
      [] a.tag = "num" /\ b.tag = "inf" -> Whole(0)
      [] OTHER -> NaN

\* Math.min(a, b) / Math.max(a, b) with b finite: NaN propagates.
MathMin(a, b) ==
    CASE a.tag = "nan" -> NaN
      [] a.tag = "inf" -> IF a.n > 0 THEN b ELSE a
      [] OTHER -> IF Lt(b, a) THEN b ELSE a

MathMax(a, b) ==
    CASE a.tag = "nan" -> NaN
      [] a.tag = "inf" -> IF a.n > 0 THEN a ELSE b
      [] OTHER -> IF Lt(a, b) THEN b ELSE a

\* Number(v): null is 0, true is 1, undefined and an unparsable string are NaN.
ToNumber(v) ==
    CASE v.tag = "null" -> Whole(0)
      [] v.tag = "bool" -> Whole(v.n)
      [] v.tag = "undefined" -> NaN
      [] v.tag = "string" -> NaN
      [] OTHER -> v

\* v is falsy as a number: 0 or NaN
Falsy(v) == v.tag = "nan" \/ (v.tag = "num" /\ v.n = 0)

\* v || alt
OrElse(v, alt) == IF Falsy(v) THEN alt ELSE v

\* v ?? alt
Coalesce(v, alt) == IF Present(v) THEN v ELSE alt

----------------------------------------------------------------------------
(* Sequence helpers *)

RECURSIVE SelectSeqBy(_, _)
\* s.filter(keep): the entries of s whose index is in keep, in order
SelectSeqBy(s, keep) ==
    IF s = <<>> THEN <<>>
    ELSE LET n == Len(s)
             front == SelectSeqBy(SubSeq(s, 1, n - 1), keep)
         IN  IF n \in keep THEN Append(front, s[n]) ELSE front

RECURSIVE MaxOf(_)
\* Math.max(...vals) of a non-empty sequence of finite numbers
MaxOf(vals) ==
    IF Len(vals) = 1 THEN vals[1]
    ELSE LET m == MaxOf(Tail(vals))
         IN  IF Lt(vals[1], m) THEN m ELSE vals[1]

RECURSIVE MinOf(_)
\* Math.min(...vals) of a non-empty sequence of finite numbers
MinOf(vals) ==
    IF Len(vals) = 1 THEN vals[1]
    ELSE LET m == MinOf(Tail(vals))
         IN  IF Lt(m, vals[1]) THEN m ELSE vals[1]

\* All sequences over S of length lo..hi
SeqsOf(S, lo, hi) == UNION {[1..k -> S] : k \in lo..hi}

\* A path command: its letter and its coordinate pairs, the last of which
\* is where the command ends.
Cmd(op, pts) == [op |-> op, pts |-> pts]

----------------------------------------------------------------------------
(* RadarChart: max-normalizing radar *)

\* The seven axes of RadarChart, in drawing order
RadarAxes ==
    <<"pts_per_game", "ast_per_game", "reb_per_game", "fg3_per_game", "ts_pct",
      "availability", "value_score">>

\* The eight axes of CountingGeometrySpider, in drawing order
SpiderAxes ==
    <<"efficiency", "threes", "points", "rebounds", "assists", "steals",
      "blocks", "turnovers">>

AxisKeys(axes) == {axes[i] : i \in DOMAIN axes}

\* data.series.map((s) => s[a.key]).filter((v) => v !== null && v !== undefined)
AxisVals(series, key) ==
    LET col == [i \in DOMAIN series |-> series[i][key]]
    IN  SelectSeqBy(col, {i \in DOMAIN col : Present(col[i])})

MaxPerAxisNoGuard(series, key) ==
    LET vals == AxisVals(series, key)
    IN  IF Len(vals) # 0 THEN MaxOf(vals) ELSE Whole(1)

MaxPerAxisGlobal(series, key) ==
    LET vals == AxisVals(series, RadarAxes[1]) \o AxisVals(series, RadarAxes[7])
        maxVal == IF Len(vals) # 0 THEN MaxOf(vals) ELSE Whole(1)
    IN  OrElse(maxVal, Whole(1))

MaxPerAxisNullAsZero(series, key) ==
    LET col == [i \in DOMAIN series |-> Coalesce(series[i][key], Whole(0))]
    IN  OrElse(MaxOf(col), Whole(1))

\* maxPerAxis[a.key]: the largest present value, 1 when there is none or it is 0
MaxPerAxis(series, key) ==
    LET vals == AxisVals(series, key)
        maxVal == IF Len(vals) # 0 THEN MaxOf(vals) ELSE Whole(1)
    IN  OrElse(maxVal, Whole(1))

\* buildPath's val for one axis of one series
RadarVal(s, key, maxPerAxis) ==
    LET raw == Coalesce(s[key], Whole(0))
        max == OrElse(maxPerAxis[key], Whole(1))
    IN  MathMin(Div(raw, max), Whole(1))

\* A coordinate whose value is irrational (the cosine or sine of an angle
\* that is not a multiple of a quarter turn): only the direction and the
\* distance of such a vertex are kept exactly.
Irrational == [tag |-> "irrational", n |-> 0, d |-> 1]

AxisTurnCounterClockwise(idx, n) == Sub(Num(0 - idx, n), Num(1, 4))

\* angle = (Math.PI * 2 * idx) / axes.length - Math.PI / 2, as a fraction of
\* a full turn (idx counts from 0)
AxisTurn(idx, n) == Sub(Num(idx, n), Num(1, 4))

\* The number of quarter turns (0..3) of an angle that is a multiple of a
\* quarter turn
Quarters(turn) == ((4 * turn.n) \div turn.d) % 4

Quadrantal(turn) == (4 * turn.n) % turn.d = 0

\* Math.cos / Math.sin of such an angle.  In doubles Math.cos(-Math.PI / 2)
\* is 6.1e-17 and not 0; multiplied by a radius of at most 156 and a value
\* of at most 1 and added to the center it is rounded away.
Cos(turn) == Whole(CASE Quarters(turn) = 0 -> 1 [] Quarters(turn) = 2 -> -1 [] OTHER -> 0)
Sin(turn) == Whole(CASE Quarters(turn) = 1 -> 1 [] Quarters(turn) = 3 -> -1 [] OTHER -> 0)

\* One vertex of buildPath's coords:
\*   x = center + Math.cos(angle) * radius * val
\*   y = center + Math.sin(angle) * radius * val
\* (y grows downwards).  turn is the direction from the center, dist the
\* signed distance along it.
Vertex(idx, n, center, radius, val) ==
    LET turn == AxisTurn(idx, n)
    IN  [turn |-> turn,
         dist |-> Mul(radius, val),
         x |-> IF Quadrantal(turn)
               THEN Add(center, Mul(Mul(Cos(turn), radius), val)) ELSE Irrational,
         y |-> IF Quadrantal(turn)
               THEN Add(center, Mul(Mul(Sin(turn), radius), val)) ELSE Irrational]

BuildPolygonOpen(coords) ==
    [i \in DOMAIN coords |-> Cmd(IF i = 1 THEN "M" ELSE "L", <<coords[i]>>)]

\* coords.map((c, i) => `${i === 0 ? "M" : "L"} ${c[0]} ${c[1]}`).join(" ") + " Z"
BuildPolygon(coords) ==
    [i \in DOMAIN coords |-> Cmd(IF i = 1 THEN "M" ELSE "L", <<coords[i]>>)]
        \o <<Cmd("Z", <<>>)>>

\* const colors = [...]; colors[idx % colors.length] (idx counts from 0)
RadarColors == <<"#f97316", "#38bdf8", "#a855f7", "#22c55e", "#f59e0b">>
RadarColor(idx) == RadarColors[(idx % Len(RadarColors)) + 1]

\* RadarChart({data}): nothing is computed for an empty series list.
\* size = 360, center = size / 2, radius = size / 2 - 30.
RenderRadarChart ==
    LET series == radarSeries
        keys == AxisKeys(RadarAxes)
        maxPerAxis == [k \in keys |-> MaxPerAxis(series, k)]
        vals == [i \in DOMAIN series |->
                    [k \in keys |-> RadarVal(series[i], k, maxPerAxis)]]
        coords(i) == [a \in DOMAIN RadarAxes |->
                        Vertex(a - 1, Len(RadarAxes), Whole(180), Whole(150),
                               vals[i][RadarAxes[a]])]
    IN  /\ radarComponent = "RadarChart"
        /\ ~radarRendered
        /\ RadarOnly
        /\ radarRendered' = TRUE
        /\ UNCHANGED <<radarComponent, radarSeries>>
        /\ radarMax' = IF Len(series) = 0 THEN <<>> ELSE maxPerAxis
        /\ radarVals' = vals
        /\ radarPaths' = [i \in DOMAIN series |-> BuildPolygon(coords(i))]
        /\ radarColors' = [i \in DOMAIN series |-> RadarColor(i - 1)]

----------------------------------------------------------------------------
(* CountingGeometrySpider: pre-normalized radar *)

SpiderValOfMax(series, s, key) ==
    LET m == MaxOf([i \in DOMAIN series |-> OrElse(ToNumber(series[i][key]), Whole(0))])
    IN  MathMax(Whole(0), MathMin(Whole(1),
            Div(OrElse(ToNumber(s[key]), Whole(0)), OrElse(m, Whole(1)))))

\* buildPath's v: Math.max(0, Math.min(1, Number(s[axis.key]) || 0)).
\* The other series of the list are not read: buildPath sees s alone.
SpiderVal(series, s, key) ==
    MathMax(Whole(0), MathMin(Whole(1), OrElse(ToNumber(s[key]), Whole(0))))

\* seriesColor (idx counts from 0)
SpiderPalette == <<"#f97316", "#a855f7", "#22c55e", "#f59e0b", "#fb7185", "#60a5fa">>
SeriesColor(idx) ==
    IF idx = 0 THEN "#38bdf8"
    ELSE SpiderPalette[((idx - 1) % Len(SpiderPalette)) + 1]

\* CountingGeometrySpider({data}): size = 380, center = size / 2,
\* radius = size / 2 - 34; with an empty series list only the empty-state
\* card is returned.
RenderCountingGeometrySpider ==
    LET series == radarSeries
        keys == AxisKeys(SpiderAxes)
        vals == [i \in DOMAIN series |->
                    [k \in keys |-> SpiderVal(series, series[i], k)]]
        coords(i) == [a \in DOMAIN SpiderAxes |->
                        Vertex(a - 1, Len(SpiderAxes), Whole(190), Whole(156),
                               vals[i][SpiderAxes[a]])]
    IN  /\ radarComponent = "CountingGeometrySpider"
        /\ ~radarRendered
        /\ RadarOnly
        /\ radarRendered' = TRUE
        /\ UNCHANGED <<radarComponent, radarSeries>>
        /\ radarMax' = <<>>
        /\ radarVals' = vals
        /\ radarPaths' = [i \in DOMAIN series |-> BuildPolygon(coords(i))]
        /\ radarColors' = [i \in DOMAIN series |-> SeriesColor(i - 1)]

----------------------------------------------------------------------------
(* Inputs of the radar components *)

\* The largest number of overlaid series
MaxSeries == 2

\* Raw per-game statistics: absent, negative, zero, below and at the maximum
RadarInputs == {Null, Undefined, Whole(-5), Whole(0), Whole(5), Whole(10)}

\* Pre-normalized attributes: missing, an unparsable string, a boolean, and
\* numbers below 0, inside and above [0,1]
SpiderInputs ==
    {Undefined, NonNumeric, JsTrue, Num(-1, 2), Whole(0), Num(1, 2), Num(3, 2)}

\* The series that take, on each axis of DOMAIN inputsOf, any of the inputs
\* given for it, and one fixed value on the other axes
SeriesOver(axes, inputsOf, fixed) ==
    LET varied == DOMAIN inputsOf
        choices == {f \in [varied -> UNION {inputsOf[k] : k \in varied}] :
                        \A k \in varied : f[k] \in inputsOf[k]}
    IN  {[k \in AxisKeys(axes) |-> IF k \in varied THEN f[k] ELSE fixed] :
            f \in choices}

\* RadarChart: the first axis takes every input, the last axis an absent, a
\* negative, a zero and a positive one
RadarVaried ==
    [pts_per_game |-> RadarInputs,
     value_score |-> {Null, Whole(-5), Whole(0), Whole(10)}]

\* CountingGeometrySpider: the first axis takes every input, the axis a
\* quarter turn after it a missing, an unparsable and a too large one
SpiderVaried ==
    [efficiency |-> SpiderInputs,
     points |-> {Undefined, NonNumeric, Num(3, 2)}]

RadarSeriesLists == SeqsOf(SeriesOver(RadarAxes, RadarVaried, Whole(5)), 0, MaxSeries)
SpiderSeriesLists == SeqsOf(SeriesOver(SpiderAxes, SpiderVaried, Num(1, 2)), 0, MaxSeries)

\* The longest series list of the colour specification
MaxColoured == 8

\* Series lists long enough for the palettes to wrap, over two series
ColouredRadarLists ==
    SeqsOf(SeriesOver(RadarAxes, <<>>, Whole(5))
            \cup SeriesOver(RadarAxes, <<>>, Whole(10)), 0, MaxColoured)
ColouredSpiderLists ==
    SeqsOf(SeriesOver(SpiderAxes, <<>>, Num(1, 2))
            \cup SeriesOver(SpiderAxes, <<>>, Whole(1)), 0, MaxColoured)

\* No radar component is mounted.
RadarIdle ==
    /\ radarComponent = "none"
    /\ radarSeries = <<>>
    /\ radarRendered = FALSE
    /\ radarMax = <<>>
    /\ radarVals = <<>>
    /\ radarPaths = <<>>
    /\ radarColors = <<>>

\* A radar component is mounted with props from the given sets and has yet
\* to render.
RadarMounted(radarLists, spiderLists) ==
    /\ \/ radarComponent = "RadarChart" /\ radarSeries \in radarLists
       \/ radarComponent = "CountingGeometrySpider" /\ radarSeries \in spiderLists
    /\ radarRendered = FALSE
    /\ radarMax = <<>>
    /\ radarVals = <<>>
    /\ radarPaths = <<>>
    /\ radarColors = <<>>

InitRadar == RadarMounted(RadarSeriesLists, SpiderSeriesLists)

----------------------------------------------------------------------------
(* App: the selection and its data-fetching effect *)

NoPlayer == 0
NoData == 0

\* The players offered by the selector
PlayerIds == {1, 2}

\* How many times the selection may change in one run
MaxSelections == 3

\* useState initial values
AppInit ==
    /\ selected = NoPlayer
    /\ effectPending = FALSE
    /\ inflight = {}
    /\ issued = 0
    /\ trajectory = NoData
    /\ comps = NoData
    /\ label = NoData
    /\ projection = NoData
    /\ forecast = NoData
    /\ countingGeometry = NoData
    /\ countingStatus = FALSE
    /\ radar = NoData
    /\ loading = FALSE
    /\ error = FALSE
    /\ anyRejected = FALSE

\* PlayerSelector's onChange={setSelected}: a new id re-renders and schedules
\* the [selected] effect; setting the same id changes nothing.
Select(id) ==
    /\ AppOnly
    /\ id # selected
    /\ ~effectPending
    /\ issued < MaxSelections
    /\ selected' = id
    /\ effectPending' = TRUE
    /\ UNCHANGED <<inflight, issued, trajectory, comps, label, projection,
                   forecast, countingGeometry, countingStatus, radar, loading,
                   error, anyRejected>>

\* useEffect(..., [selected]): flags are reset, the counting geometry is
\* cleared, and the main batch, the counting-geometry fetch and the radar
\* fetch are started for the selected id.  Nothing cancels earlier requests.
FetchEffect ==
    /\ AppOnly
    /\ effectPending
    /\ selected # NoPlayer
    /\ effectPending' = FALSE
    /\ loading' = TRUE
    /\ error' = FALSE
    /\ countingGeometry' = NoData
    /\ countingStatus' = FALSE
    /\ inflight' = inflight \cup
            {[kind |-> k, id |-> selected, seq |-> issued] :
                k \in {"main", "counting", "radar"}}
    /\ issued' = issued + 1
    /\ UNCHANGED <<selected, trajectory, comps, label, projection, forecast,
                   radar, anyRejected>>

Requests(kind) == {r \in inflight : r.kind = kind}

\* Promise.all(...).then(...).finally(...): all five fetches answered; the
\* forecast is null when its own fetch was rejected (.catch(() => null)).
MainResolved(r, withForecast) ==
    /\ AppOnly
    /\ r \in Requests("main")
    /\ inflight' = inflight \ {r}
    /\ trajectory' = r.id
    /\ comps' = r.id
    /\ label' = r.id
    /\ projection' = r.id
    /\ forecast' = IF withForecast THEN r.id ELSE NoData
    /\ loading' = FALSE
    /\ anyRejected' = (anyRejected \/ ~withForecast)
    /\ UNCHANGED <<selected, effectPending, issued, countingGeometry,
                   countingStatus, radar, error>>

\* Promise.all(...).catch(...).finally(...): one of trajectory, comps, label
\* or projection was rejected.
MainRejected(r) ==
    /\ AppOnly
    /\ r \in Requests("main")
    /\ inflight' = inflight \ {r}
    /\ error' = TRUE
    /\ loading' = FALSE
    /\ anyRejected' = TRUE
    /\ UNCHANGED <<selected, effectPending, issued, trajectory, comps, label,
                   projection, forecast, countingGeometry, countingStatus, radar>>

\* fetchCountingGeometry(selected).then(...)
CountingResolved(r) ==
    /\ AppOnly
    /\ r \in Requests("counting")
    /\ inflight' = inflight \ {r}
    /\ countingGeometry' = r.id
    /\ UNCHANGED <<selected, effectPending, issued, trajectory, comps, label,
                   projection, forecast, countingStatus, radar, loading, error,
                   anyRejected>>

\* fetchCountingGeometry(selected).catch(...)
CountingRejected(r) ==
    /\ AppOnly
    /\ r \in Requests("counting")
    /\ inflight' = inflight \ {r}
    /\ countingGeometry' = NoData
    /\ countingStatus' = TRUE
    /\ anyRejected' = TRUE
    /\ UNCHANGED <<selected, effectPending, issued, trajectory, comps, label,
                   projection, forecast, radar, loading, error>>

\* fetchRadar(selected).then((r) => setRadar(r))
RadarResolved(r) ==
    /\ AppOnly
    /\ r \in Requests("radar")
    /\ inflight' = inflight \ {r}
    /\ radar' = r.id
    /\ UNCHANGED <<selected, effectPending, issued, trajectory, comps, label,
                   projection, forecast, countingGeometry, countingStatus,
                   loading, error, anyRejected>>

\* fetchRadar(selected).catch(() => setRadar({ series: [] }))
RadarRejected(r) ==
    /\ AppOnly
    /\ r \in Requests("radar")
    /\ inflight' = inflight \ {r}
    /\ radar' = NoData
    /\ anyRejected' = TRUE
    /\ UNCHANGED <<selected, effectPending, issued, trajectory, comps, label,
                   projection, forecast, countingGeometry, countingStatus,
                   loading, error>>

----------------------------------------------------------------------------
(* CareerChart *)

PointsOfNullOnly(traj) ==
    LET kept == SelectSeqBy(traj, {i \in DOMAIN traj : traj[i].value_score.tag # "null"})
    IN  [i \in DOMAIN kept |->
            [season |-> kept[i].season, success |-> Coalesce(kept[i].value_score, Null)]]

\* trajectory.filter((t) => t.value_score !== null && t.value_score !== undefined)
\*           .map((t) => ({ season: t.season, success: t.value_score ?? null }))
PointsOf(traj) ==
    LET kept == SelectSeqBy(traj, {i \in DOMAIN traj : Present(traj[i].value_score)})
    IN  [i \in DOMAIN kept |->
            [season |-> kept[i].season, success |-> Coalesce(kept[i].value_score, Null)]]

Seasons(points) == [i \in DOMAIN points |-> Whole(points[i].season)]

AllSeasonsOfPrimary(points, compPoints) == Seasons(points)

\* const allSeasons = [...points.map((p) => p.season), ...compPoints.map((p) => p.season)]
AllSeasons(points, compPoints) == Seasons(points) \o Seasons(compPoints)
Successes(points) == [i \in DOMAIN points |-> points[i].success]

PadYNone(minS, maxS) == Whole(0)

\* const padY = (maxS - minS) * 0.1 || 1
PadY(minS, maxS) == OrElse(Mul(Sub(maxS, minS), Num(1, 10)), Whole(1))

FractionNoGuard(v, lo, hi) == Div(Sub(v, lo), Sub(hi, lo))

\* The linear map of both versions: v in [lo, hi] to offset + (v - lo) / (hi - lo || 1) * extent
Fraction(v, lo, hi) == Div(Sub(v, lo), OrElse(Sub(hi, lo), Whole(1)))

\* First version: width 640, height 240, 20 pixels of padding on every side;
\* the x domain runs from the first to the last kept season.
XScaleV1(s, seasons) ==
    Add(Mul(Fraction(s, seasons[1], seasons[Len(seasons)]), Whole(640 - 40)), Whole(20))

YScaleV1(v, minS, maxS) ==
    LET padY == PadY(minS, maxS)
    IN  Sub(Whole(240 - 20),
            Mul(Fraction(v, Sub(minS, padY), Add(maxS, padY)), Whole(240 - 40)))

\* Version 2: width 640, height 270, pad = {left: 24, right: 22, top: 22, bottom: 40}
\* XScale over width - pad.left, the right padding left out
XScaleNoRightPad(s, minSeason, maxSeason) ==
    Add(Mul(Fraction(s, minSeason, maxSeason), Whole(640 - 24)), Whole(24))

XScale(s, minSeason, maxSeason) ==
    Add(Mul(Fraction(s, minSeason, maxSeason), Whole(640 - 24 - 22)), Whole(24))

YScale(v, minS, maxS) ==
    LET padY == PadY(minS, maxS)
    IN  Sub(Whole(270 - 40),
            Mul(Fraction(v, Sub(minS, padY), Add(maxS, padY)), Whole(270 - 22 - 40)))

\* First version of buildSmoothPath: per pair of neighbours a quadratic to
\* the midpoint (control point: the segment's start) and a smooth quadratic
\* to the segment's end.
RECURSIVE QuadSegments(_, _)
QuadSegments(pts, i) ==
    IF i > Len(pts) - 1 THEN <<>>
    ELSE LET p0 == pts[i]
             p1 == pts[i + 1]
             cx == Div(Add(p0[1], p1[1]), Whole(2))
             cy == Div(Add(p0[2], p1[2]), Whole(2))
         IN  <<Cmd("Q", <<p0, <<cx, cy>>>>), Cmd("T", <<p1>>)>>
                \o QuadSegments(pts, i + 1)

BuildSmoothPathV1(pts) ==
    IF Len(pts) < 2 THEN <<>>
    ELSE <<Cmd("M", <<pts[1]>>)>> \o QuadSegments(pts, 1)

\* const clamp = (v, lo, hi) => Math.max(lo, Math.min(hi, v))
Clamp(v, lo, hi) == IF v < lo THEN lo ELSE IF v > hi THEN hi ELSE v

\* tension / 6 with tension = 0.9
TensionSixth == Num(9, 60)

CubicSegmentSkewed(pts, i) ==
    LET P(j) == pts[Clamp(j, 1, Len(pts))]
        p0 == P(i - 1)
        p1 == P(i)
        p2 == P(i + 1)
        p3 == P(i + 2)
        c1 == <<Add(p1[1], Mul(Sub(p2[2], p0[2]), TensionSixth)),
                Add(p1[2], Mul(Sub(p2[1], p0[1]), TensionSixth))>>
        c2 == <<Sub(p2[1], Mul(Sub(p3[1], p1[1]), TensionSixth)),
                Sub(p2[2], Mul(Sub(p3[2], p1[2]), TensionSixth))>>
    IN  Cmd("C", <<c1, c2, p2>>)

\* CubicSegment with the textbook factor 1/6, the tension left out
CubicSegmentUnitTension(pts, i) ==
    LET P(j) == pts[Clamp(j, 1, Len(pts))]
        p0 == P(i - 1)
        p1 == P(i)
        p2 == P(i + 1)
        p3 == P(i + 2)
        c1 == <<Add(p1[1], Mul(Sub(p2[1], p0[1]), Num(1, 6))),
                Add(p1[2], Mul(Sub(p2[2], p0[2]), Num(1, 6)))>>
        c2 == <<Sub(p2[1], Mul(Sub(p3[1], p1[1]), Num(1, 6))),
                Sub(p2[2], Mul(Sub(p3[2], p1[2]), Num(1, 6)))>>
    IN  Cmd("C", <<c1, c2, p2>>)

\* One Catmull-Rom segment as a cubic Bezier, from point i to point i + 1
\* (1-based), with the window clamped to the sequence.
CubicSegment(pts, i) ==
    LET P(j) == pts[Clamp(j, 1, Len(pts))]
        p0 == P(i - 1)
        p1 == P(i)
        p2 == P(i + 1)
        p3 == P(i + 2)
        c1 == <<Add(p1[1], Mul(Sub(p2[1], p0[1]), TensionSixth)),
                Add(p1[2], Mul(Sub(p2[2], p0[2]), TensionSixth))>>
        c2 == <<Sub(p2[1], Mul(Sub(p3[1], p1[1]), TensionSixth)),
                Sub(p2[2], Mul(Sub(p3[2], p1[2]), TensionSixth))>>
    IN  Cmd("C", <<c1, c2, p2>>)

BuildSmoothPathFromOne(pts) ==
    IF Len(pts) < 1 THEN <<>>
    ELSE <<Cmd("M", <<pts[1]>>)>> \o [i \in 1..(Len(pts) - 1) |-> CubicSegment(pts, i)]

BuildSmoothPathDropsLast(pts) ==
    IF Len(pts) < 2 THEN <<>>
    ELSE <<Cmd("M", <<pts[1]>>)>> \o [i \in 1..(Len(pts) - 2) |-> CubicSegment(pts, i)]

\* Version 2 of buildSmoothPath: M at the first point, then one cubic per
\* pair of neighbours.
BuildSmoothPath(pts) ==
    IF Len(pts) < 2 THEN <<>>
    ELSE <<Cmd("M", <<pts[1]>>)>> \o [i \in 1..(Len(pts) - 1) |-> CubicSegment(pts, i)]

RECURSIVE TickLoop(_, _, _)
\* for (let y = minSeason; y <= maxSeason; y += step) ticks.push(y)
TickLoop(y, maxSeason, step) ==
    IF y <= maxSeason THEN <<y>> \o TickLoop(y + step, maxSeason, step) ELSE <<>>

\* Math.ceil(a / b) for a >= 0, b > 0
CeilDiv(a, b) == (a + b - 1) \div b

BuildTicksNoForcedMax(minSeason, maxSeason) ==
    LET span == maxSeason - minSeason
        step == IF CeilDiv(span, 8) > 1 THEN CeilDiv(span, 8) ELSE 1
    IN  TickLoop(minSeason, maxSeason, step)

\* BuildTicks with the step rounded down
BuildTicksFloorStep(minSeason, maxSeason) ==
    LET span == maxSeason - minSeason
        desired == 8
        step == IF span \div desired > 1 THEN span \div desired ELSE 1
        ticks == TickLoop(minSeason, maxSeason, step)
    IN  IF ticks[Len(ticks)] # maxSeason THEN Append(ticks, maxSeason) ELSE ticks

\* buildTicks: step max(1, ceil(span / 8)), and maxSeason appended when the
\* loop did not end on it.
BuildTicks(minSeason, maxSeason) ==
    LET span == maxSeason - minSeason
        desired == 8
        step == IF CeilDiv(span, desired) > 1 THEN CeilDiv(span, desired) ELSE 1
        ticks == TickLoop(minSeason, maxSeason, step)
    IN  IF ticks[Len(ticks)] # maxSeason THEN Append(ticks, maxSeason) ELSE ticks

\* trajectory.filter((t) => t.value_score !== null && t.value_score !== undefined):
\* the entries that get a circle
Plotted(entries) ==
    SelectSeqBy(entries, {i \in DOMAIN entries : Present(entries[i].value_score)})

AnnotationYAboveOnly(y) ==
    [useBelow |-> FALSE, yPos |-> Sub(y, Whole(60))]

AnnotationYFlipsAtGuard(y) ==
    LET yAbove == Sub(y, Whole(60))
        yBelow == Add(y, Whole(40))
        useBelow == Le(yAbove, Whole(10))
    IN  [useBelow |-> useBelow, yPos |-> IF useBelow THEN yBelow ELSE yAbove]

\* Placement of the annotation of a point drawn at height y (the same code
\* in both versions): above, or below when above is too close to the top
AnnotationY(y) ==
    LET yAbove == Sub(y, Whole(60))
        yBelow == Add(y, Whole(40))
        useBelow == Lt(yAbove, Whole(10))
    IN  [useBelow |-> useBelow, yPos |-> IF useBelow THEN yBelow ELSE yAbove]

\* What is drawn for one plotted entry t at (x, y): the circle, and the
\* annotation text when t.annotation is truthy
PrimaryMarker(t, x, y) ==
    [season |-> t.season, cx |-> x, cy |-> y,
     annotated |-> t.annotation,
     useBelow |-> IF t.annotation THEN AnnotationY(y).useBelow ELSE FALSE,
     yPos |-> IF t.annotation THEN AnnotationY(y).yPos ELSE Null]

NothingDrawn ==
    /\ chartCoords' = <<>>
    /\ chartCompCoords' = <<>>
    /\ chartPath' = <<>>
    /\ chartCompPath' = <<>>
    /\ chartMarkers' = <<>>
    /\ chartCompMarkers' = <<>>
    /\ chartTicks' = <<>>

\* The first version of CareerChart({trajectory})
RenderCareerChartV1 ==
    LET points == PointsOf(chartTrajectory)
        seasons == Seasons(points)
        successes == Successes(points)
        minS == MinOf(successes)
        maxS == MaxOf(successes)
        xs(s) == XScaleV1(s, seasons)
        ys(v) == YScaleV1(v, minS, maxS)
        coords == [i \in DOMAIN points |-> <<xs(seasons[i]), ys(successes[i])>>]
        plotted == Plotted(chartTrajectory)
    IN  /\ chartVersion = 1
        /\ ~chartRendered
        /\ ChartOnly
        /\ chartRendered' = TRUE
        /\ UNCHANGED <<chartVersion, chartTrajectory, chartComparison>>
        /\ IF Len(points) = 0
           THEN chartEmpty' = TRUE /\ NothingDrawn
           ELSE /\ chartEmpty' = FALSE
                /\ chartCoords' = coords
                /\ chartPath' = BuildSmoothPathV1(coords)
                /\ chartMarkers' =
                        [i \in DOMAIN plotted |->
                            PrimaryMarker(plotted[i], xs(Whole(plotted[i].season)),
                                          ys(plotted[i].value_score))]
                /\ chartCompCoords' = <<>>
                /\ chartCompPath' = <<>>
                /\ chartCompMarkers' = <<>>
                /\ chartTicks' = <<>>

\* Version 2 of CareerChart({trajectory, comparisonTrajectory})
RenderCareerChart ==
    LET points == PointsOf(chartTrajectory)
        compPoints == PointsOf(chartComparison)
        allSeasons == AllSeasons(points, compPoints)
        minSeason == MinOf(allSeasons)
        maxSeason == MaxOf(allSeasons)
        successes == Successes(points) \o Successes(compPoints)
        minS == MinOf(successes)
        maxS == MaxOf(successes)
        xs(s) == XScale(s, minSeason, maxSeason)
        ys(v) == YScale(v, minS, maxS)
        coords == [i \in DOMAIN points |->
                        <<xs(Whole(points[i].season)), ys(points[i].success)>>]
        compCoords == [i \in DOMAIN compPoints |->
                        <<xs(Whole(compPoints[i].season)), ys(compPoints[i].success)>>]
        plotted == Plotted(chartTrajectory)
    IN  /\ chartVersion = 2
        /\ ~chartRendered
        /\ ChartOnly
        /\ chartRendered' = TRUE
        /\ UNCHANGED <<chartVersion, chartTrajectory, chartComparison>>
        /\ IF Len(points) = 0
           THEN chartEmpty' = TRUE /\ NothingDrawn
           ELSE /\ chartEmpty' = FALSE
                /\ chartCoords' = coords
                /\ chartCompCoords' = compCoords
                /\ chartPath' = BuildSmoothPath(coords)
                /\ chartCompPath' = BuildSmoothPath(compCoords)
                /\ chartMarkers' =
                        [i \in DOMAIN plotted |->
                            PrimaryMarker(plotted[i], xs(Whole(plotted[i].season)),
                                          ys(plotted[i].value_score))]
                /\ chartCompMarkers' =
                        [i \in DOMAIN compPoints |->
                            [season |-> compPoints[i].season,
                             cx |-> xs(Whole(compPoints[i].season)),
                             cy |-> ys(compPoints[i].success)]]
                /\ chartTicks' = BuildTicks(minSeason.n, maxSeason.n)

\* No chart is mounted.
ChartIdle ==
    /\ chartVersion = 0
    /\ chartTrajectory = <<>>
    /\ chartComparison = <<>>
    /\ chartRendered = FALSE
    /\ chartEmpty = FALSE
    /\ chartCoords = <<>>
    /\ chartCompCoords = <<>>
    /\ chartPath = <<>>
    /\ chartCompPath = <<>>
    /\ chartMarkers = <<>>
    /\ chartCompMarkers = <<>>
    /\ chartTicks = <<>>

\* A chart is mounted with props from the given sets and has yet to render.
ChartMounted(versions, trajectories, comparisons) ==
    /\ chartVersion \in versions
    /\ chartTrajectory \in trajectories
    /\ chartComparison \in IF chartVersion = 2 THEN comparisons ELSE {<<>>}
    /\ chartRendered = FALSE
    /\ chartEmpty = FALSE
    /\ chartCoords = <<>>
    /\ chartCompCoords = <<>>
    /\ chartPath = <<>>
    /\ chartCompPath = <<>>
    /\ chartMarkers = <<>>
    /\ chartCompMarkers = <<>>
    /\ chartTicks = <<>>

----------------------------------------------------------------------------
(* Inputs of CareerChart *)

\* The longest trajectory
MaxLen == 3

\* The widest season domain of the tick specification
MaxSpan == 18

FirstSeason == 2020

\* A trajectory entry; annotation is TRUE for a non-empty annotation text
Entry(season, score) ==
    [season |-> season, value_score |-> score, annotation |-> FALSE]

Annotated(season, score) ==
    [season |-> season, value_score |-> score, annotation |-> TRUE]

\* Seasons in any order, scores absent (null, or undefined for a season
\* whose value_score field is missing) or present (18.2, 24.5)
ChartSeasons == {FirstSeason, FirstSeason + 1, FirstSeason + 2}
ChartScores == {Null, Num(91, 5), Num(49, 2)}
ChartEntries ==
    {Entry(s, v) : s \in ChartSeasons, v \in ChartScores}
        \cup {Entry(FirstSeason + 1, Undefined)}
ChartTrajectories == SeqsOf(ChartEntries, 0, MaxLen)

\* Comparison series: none, a single point, one that widens both domains,
\* one with a gap
ChartComparisons ==
    { <<>>,
      <<Entry(FirstSeason + 1, Whole(20))>>,
      <<Entry(FirstSeason - 1, Whole(10)), Entry(FirstSeason + 1, Whole(30))>>,
      <<Entry(FirstSeason + 1, Whole(20)), Entry(FirstSeason + 2, Null),
        Entry(FirstSeason + 3, Whole(22))>> }

\* The tick specification: one or two primary seasons and at most one
\* comparison season anywhere in a domain of MaxSpan years
TickSeasons == FirstSeason..(FirstSeason + MaxSpan)
TickTrajectories == SeqsOf({Entry(s, Num(91, 5)) : s \in TickSeasons}, 1, 2)
TickComparisons == SeqsOf({Entry(s, Num(49, 2)) : s \in TickSeasons}, 0, 1)

\* The annotation specification: consecutive seasons, each with or without
\* an annotation, over scores that put a point at, just above and just
\* below the height where the placement flips (y = 70), next to a
\* comparison series that pushes every primary point down
AnnotScores == {Whole(0), Whole(104), Whole(107), Whole(108), Whole(130)}
AnnotTrajectories ==
    UNION {{[i \in 1..k |-> IF a[i] THEN Annotated(FirstSeason + i - 1, v[i])
                            ELSE Entry(FirstSeason + i - 1, v[i])] :
                v \in [1..k -> AnnotScores], a \in [1..k -> BOOLEAN]} : k \in 1..MaxLen}
AnnotComparisons == { <<>>, <<Entry(FirstSeason, Whole(260))>> }

----------------------------------------------------------------------------
(* App: the player list, the filters and the selection that follows them *)

\* A field that is null, undefined or not of the expected type
Missing == -1

\* seasonFilter "all"
NoFilter == 0

MaxUiSeason == 2024

\* The filter of eligiblePlayers, also used for firstEligible
Eligible(p) ==
    IF p.season_count # Missing THEN p.season_count >= 3
    ELSE IF p.from_year # Missing /\ p.to_year # Missing
    THEN p.to_year - p.from_year + 1 >= 3
    ELSE FALSE

IsArray(played) == played # {Missing}

\* The currentFilter stage of filteredPlayers
PlaysIn2025(p, want2025) ==
    IF IsArray(p.seasons_played)
    THEN (2025 \in p.seasons_played) = want2025
    ELSE IF p.to_year # Missing
    THEN (p.to_year >= 2025) = want2025
    ELSE ~want2025

\* The seasonFilter stage of filteredPlayers
PlayedSeason(p, season) ==
    IF IsArray(p.seasons_played) THEN season \in p.seasons_played
    ELSE IF p.from_year # Missing /\ p.to_year # Missing
    THEN /\ p.from_year <= season
         /\ (IF p.to_year < MaxUiSeason THEN p.to_year ELSE MaxUiSeason) >= season
    ELSE FALSE

EligiblePlayers(list) == SelectSeqBy(list, {i \in DOMAIN list : Eligible(list[i])})

\* filteredPlayers, in the order of the list
FilteredOf(list, season, current) ==
    LET pool == EligiblePlayers(list)
        byCurrent ==
            IF current # "all"
            THEN SelectSeqBy(pool, {i \in DOMAIN pool : PlaysIn2025(pool[i], current = "yes")})
            ELSE pool
    IN  IF season = NoFilter THEN byCurrent
        ELSE SelectSeqBy(byCurrent,
                {i \in DOMAIN byCurrent : PlayedSeason(byCurrent[i], season)})

FilteredPlayers == FilteredOf(players, seasonFilter, currentFilter)

\* seasonOptions: the seasons up to maxUiSeason some player played
SeasonOptions ==
    UNION {IF IsArray(players[i].seasons_played)
           THEN {s \in players[i].seasons_played : s <= MaxUiSeason}
           ELSE IF players[i].from_year # Missing /\ players[i].to_year # Missing
           THEN {y \in players[i].from_year..players[i].to_year : y <= MaxUiSeason}
           ELSE {} : i \in DOMAIN players}

\* The options of PlayerSelector: the filtered players with a truthy id
\* (the search box left empty)
Offered == {FilteredPlayers[i].player_id :
                i \in {j \in DOMAIN FilteredPlayers : FilteredPlayers[j].player_id # NoPlayer}}

SelectionIdle ==
    /\ players = <<>>
    /\ playersResponse = <<>>
    /\ playersSettled = FALSE
    /\ seasonFilter = NoFilter
    /\ currentFilter = "all"
    /\ selectionPending = FALSE
    /\ effectOutcome = "none"

\* fetchPlayers().then(...): the list is stored and its first eligible
\* player, when there is one, selected
PlayersLoaded ==
    LET eligible == EligiblePlayers(playersResponse)
    IN  /\ SelectionOnly
        /\ ~playersSettled
        /\ ~selectionPending
        /\ playersSettled' = TRUE
        /\ players' = playersResponse
        /\ selected' = IF Len(eligible) > 0 THEN eligible[1].player_id ELSE selected
        /\ effectPending' = (effectPending \/ selected' # selected)
        /\ selectionPending' = TRUE
        /\ UNCHANGED <<playersResponse, seasonFilter, currentFilter, effectOutcome, error>>

\* fetchPlayers().catch((err) => setError(err.message))
PlayersRejected ==
    /\ SelectionOnly
    /\ ~playersSettled
    /\ ~selectionPending
    /\ playersSettled' = TRUE
    /\ error' = TRUE
    /\ UNCHANGED <<players, playersResponse, seasonFilter, currentFilter,
                   selectionPending, effectOutcome, selected, effectPending>>

\* The season <select>: setSeasonFilter; filteredPlayers is recomputed
SetSeasonFilter(v) ==
    /\ SelectionOnly
    /\ ~selectionPending
    /\ v # seasonFilter
    /\ seasonFilter' = v
    /\ selectionPending' = TRUE
    /\ UNCHANGED <<players, playersResponse, playersSettled, currentFilter,
                   effectOutcome, selected, effectPending, error>>

\* The "Current Player (2025)" <select>: setCurrentFilter
SetCurrentFilter(v) ==
    /\ SelectionOnly
    /\ ~selectionPending
    /\ v # currentFilter
    /\ currentFilter' = v
    /\ selectionPending' = TRUE
    /\ UNCHANGED <<players, playersResponse, playersSettled, seasonFilter,
                   effectOutcome, selected, effectPending, error>>

\* PlayerSelector's onChange={setSelected} with one of its options
SelectorChange(id) ==
    /\ SelectionOnly
    /\ ~selectionPending
    /\ id # selected
    /\ selected' = id
    /\ effectPending' = TRUE
    /\ selectionPending' = TRUE
    /\ UNCHANGED <<players, playersResponse, playersSettled, seasonFilter,
                   currentFilter, effectOutcome, error>>

\* SelectionEffect that keeps any selection, in the list or not
SelectionEffectKeepsAny ==
    /\ SelectionOnly
    /\ selectionPending
    /\ IF Len(FilteredPlayers) = 0
       THEN selected' = selected /\ effectOutcome' = "empty"
       ELSE IF selected # NoPlayer
       THEN selected' = selected /\ effectOutcome' = "kept"
       ELSE selected' = FilteredPlayers[1].player_id /\ effectOutcome' = "replaced"
    /\ effectPending' = (effectPending \/ selected' # selected)
    /\ selectionPending' = (selected' # selected)
    /\ UNCHANGED <<players, playersResponse, playersSettled, seasonFilter,
                   currentFilter, error>>

\* The [filteredPlayers, selected] effect.  Its own setSelected changes a
\* dependency, so it then runs once more.
SelectionEffect ==
    /\ SelectionOnly
    /\ selectionPending
    /\ IF Len(FilteredPlayers) = 0
       THEN selected' = selected /\ effectOutcome' = "empty"
       ELSE IF /\ selected # NoPlayer
               /\ \E i \in DOMAIN FilteredPlayers : FilteredPlayers[i].player_id = selected
       THEN selected' = selected /\ effectOutcome' = "kept"
       ELSE selected' = FilteredPlayers[1].player_id /\ effectOutcome' = "replaced"
    /\ effectPending' = (effectPending \/ selected' # selected)
    /\ selectionPending' = (selected' # selected)
    /\ UNCHANGED <<players, playersResponse, playersSettled, seasonFilter,
                   currentFilter, error>>

\* The lists fetchPlayers may answer with: up to MaxPlayers different
\* players of these four, in any order
MaxPlayers == 3

SamplePlayers ==
    { [player_id |-> 1, season_count |-> 3, from_year |-> 2023, to_year |-> 2025,
       seasons_played |-> {2023, 2024, 2025}],
      [player_id |-> 2, season_count |-> Missing, from_year |-> 2021, to_year |-> 2024,
       seasons_played |-> {Missing}],
      [player_id |-> 3, season_count |-> 2, from_year |-> 2024, to_year |-> 2025,
       seasons_played |-> {Missing}],
      [player_id |-> 4, season_count |-> 4, from_year |-> Missing, to_year |-> Missing,
       seasons_played |-> {Missing}] }

PlayerLists ==
    {list \in SeqsOf(SamplePlayers, 0, MaxPlayers) :
        \A i, j \in DOMAIN list : i # j => list[i] # list[j]}

----------------------------------------------------------------------------
(* Headshot images and their fallback chains *)

\* How many sources one <img> element may be given in one run
MaxLoads == 5

\* The embedded data: URI placeholder
Fallback == [kind |-> "fallback", id |-> NoPlayer]

\* A template string `https://.../${playerId}.png`
Url(kind, id) == [kind |-> kind, id |-> id]

\* ProfileCard's useMemo values: null when playerId is falsy
NoUrl == [kind |-> "null", id |-> NoPlayer]
Primary(id) == IF id # NoPlayer THEN Url("primary", id) ELSE NoUrl
Legacy(id) == IF id # NoPlayer THEN Url("legacy", id) ELSE NoUrl
Alternate(id) == IF id # NoPlayer THEN Url("alternate", id) ELSE NoUrl

\* No element: `if (!player) return null`, an empty comps list, an empty series
NoImg == [playerId |-> NoPlayer, src |-> NoUrl, stage |-> "none"]

HeadshotIdle ==
    /\ playerId = NoPlayer
    /\ src = Fallback
    /\ triedAlternate = FALSE
    /\ triedLegacy = FALSE
    /\ srcBeforeReset = Fallback
    /\ profileLoads = <<>>
    /\ similarImg = NoImg
    /\ similarLoads = <<>>
    /\ legendImg = NoImg
    /\ legendLoads = <<>>

\* ProfileCardSetPlayer with an effect that resets the source only
ProfileCardSetPlayerKeepsFlags(id) ==
    /\ HeadshotOnly
    /\ id # playerId
    /\ playerId' = id
    /\ srcBeforeReset' = src
    /\ src' = IF Primary(id) # NoUrl THEN Primary(id) ELSE Fallback
    /\ profileLoads' = IF id # NoPlayer THEN <<src'>> ELSE <<>>
    /\ UNCHANGED <<triedAlternate, triedLegacy, similarImg, similarLoads,
                   legendImg, legendLoads>>

\* ProfileCard re-rendered with another player: primary changes, so the
\* [primary] effect runs after the commit.  React flushes a pending passive
\* effect before it renders any later update, so the effect's writes are
\* the last ones of this step.
ProfileCardSetPlayer(id) ==
    /\ HeadshotOnly
    /\ id # playerId
    /\ playerId' = id
    /\ srcBeforeReset' = src
    /\ src' = IF Primary(id) # NoUrl THEN Primary(id) ELSE Fallback
    /\ triedAlternate' = FALSE
    /\ triedLegacy' = FALSE
    /\ profileLoads' = IF id # NoPlayer THEN <<src'>> ELSE <<>>
    /\ UNCHANGED <<similarImg, similarLoads, legendImg, legendLoads>>

\* ProfileCard's onError.  React writes the src attribute only when the
\* state value changed, and only that starts a load.
ProfileCardOnError ==
    /\ HeadshotOnly
    /\ playerId # NoPlayer
    /\ Len(profileLoads) < MaxLoads
    /\ IF ~triedAlternate /\ Alternate(playerId) # NoUrl
         THEN /\ src' = Alternate(playerId)
              /\ triedAlternate' = TRUE
              /\ UNCHANGED triedLegacy
         ELSE IF ~triedLegacy /\ Legacy(playerId) # NoUrl
         THEN /\ src' = Legacy(playerId)
              /\ triedLegacy' = TRUE
              /\ UNCHANGED triedAlternate
         ELSE IF src # Fallback
         THEN /\ src' = Fallback
              /\ UNCHANGED <<triedAlternate, triedLegacy>>
         ELSE UNCHANGED <<src, triedAlternate, triedLegacy>>
    /\ profileLoads' = IF src' # src THEN Append(profileLoads, src') ELSE profileLoads
    /\ UNCHANGED <<playerId, srcBeforeReset, similarImg, similarLoads, legendImg,
                   legendLoads>>

\* The onError of SimilarList's and LegendTree's <img>: both branches assign
\* img.src and img.dataset.stage
ImgOnError(img) ==
    IF img.stage = "primary"
    THEN [img EXCEPT !.src = Url("alternate", img.playerId), !.stage = "alternate"]
    ELSE [img EXCEPT !.src = Fallback, !.stage = "fallback"]

\* A card of SimilarList is keyed by player_id: another player gets a new
\* element, created with src={primary} and data-stage="primary"
SimilarListMount(id) ==
    /\ HeadshotOnly
    /\ id # similarImg.playerId
    /\ similarImg' = [playerId |-> id, src |-> Url("primary", id), stage |-> "primary"]
    /\ similarLoads' = <<Url("primary", id)>>
    /\ UNCHANGED <<playerId, src, triedAlternate, triedLegacy, srcBeforeReset,
                   profileLoads, legendImg, legendLoads>>

\* An assignment to img.src starts a load, also of the value it already has
SimilarImgOnError ==
    /\ HeadshotOnly
    /\ similarImg # NoImg
    /\ Len(similarLoads) < MaxLoads
    /\ similarImg' = ImgOnError(similarImg)
    /\ similarLoads' = Append(similarLoads, similarImg'.src)
    /\ UNCHANGED <<playerId, src, triedAlternate, triedLegacy, srcBeforeReset,
                   profileLoads, legendImg, legendLoads>>

\* LegendTree rendered with series[0] of another player.  The "Selected"
\* node has no key: a mounted element is kept, its src attribute is
\* rewritten, and data-stage, whose prop is "primary" in every render, is
\* left as the handler last wrote it.
LegendTreeRender(id) ==
    /\ HeadshotOnly
    /\ id # legendImg.playerId
    /\ legendImg' = [playerId |-> id, src |-> Url("primary", id),
                     stage |-> IF legendImg = NoImg THEN "primary" ELSE legendImg.stage]
    /\ legendLoads' = <<Url("primary", id)>>
    /\ UNCHANGED <<playerId, src, triedAlternate, triedLegacy, srcBeforeReset,
                   profileLoads, similarImg, similarLoads>>

\* `if (!series.length)` returns the empty card: LegendTree is unmounted
LegendTreeUnmount ==
    /\ HeadshotOnly
    /\ legendImg # NoImg
    /\ legendImg' = NoImg
    /\ legendLoads' = <<>>
    /\ UNCHANGED <<playerId, src, triedAlternate, triedLegacy, srcBeforeReset,
                   profileLoads, similarImg, similarLoads>>

LegendImgOnError ==
    /\ HeadshotOnly
    /\ legendImg # NoImg
    /\ Len(legendLoads) < MaxLoads
    /\ legendImg' = ImgOnError(legendImg)
    /\ legendLoads' = Append(legendLoads, legendImg'.src)
    /\ UNCHANGED <<playerId, src, triedAlternate, triedLegacy, srcBeforeReset,
                   profileLoads, similarImg, similarLoads>>

----------------------------------------------------------------------------
(* Specifications *)

InitRadarSpec == InitRadar /\ AppInit /\ ChartIdle /\ HeadshotIdle /\ SelectionIdle

NextRadar ==
    \/ RenderRadarChart
    \/ RenderCountingGeometrySpider

\* The radar components as functions of their props
SpecRadar == InitRadarSpec /\ [][NextRadar]_vars

InitColours ==
    /\ RadarMounted(ColouredRadarLists, ColouredSpiderLists)
    /\ AppInit
    /\ ChartIdle
    /\ HeadshotIdle
    /\ SelectionIdle

NextColours ==
    \/ RenderRadarChart
    \/ RenderCountingGeometrySpider

\* The radar components over long series lists
SpecColours == InitColours /\ [][NextColours]_vars

InitApp == AppInit /\ RadarIdle /\ ChartIdle /\ HeadshotIdle /\ SelectionIdle

NextApp ==
    \/ \E id \in PlayerIds : Select(id)
    \/ FetchEffect
    \/ \E r \in inflight : \E withForecast \in BOOLEAN : MainResolved(r, withForecast)
    \/ \E r \in inflight : MainRejected(r)
    \/ \E r \in inflight : CountingResolved(r)
    \/ \E r \in inflight : CountingRejected(r)
    \/ \E r \in inflight : RadarResolved(r)
    \/ \E r \in inflight : RadarRejected(r)

\* App under any order of selections and responses
SpecApp == InitApp /\ [][NextApp]_vars

InitChart ==
    /\ ChartMounted({1, 2}, ChartTrajectories, ChartComparisons)
    /\ AppInit
    /\ RadarIdle
    /\ HeadshotIdle
    /\ SelectionIdle

NextChart ==
    \/ RenderCareerChartV1
    \/ RenderCareerChart

\* Both versions of CareerChart as functions of their props
SpecChart == InitChart /\ [][NextChart]_vars

InitTicks ==
    /\ ChartMounted({2}, TickTrajectories, TickComparisons)
    /\ AppInit
    /\ RadarIdle
    /\ HeadshotIdle
    /\ SelectionIdle

NextTicks == RenderCareerChart

\* Version 2 of CareerChart over wide season domains
SpecTicks == InitTicks /\ [][NextTicks]_vars

InitAnnotations ==
    /\ ChartMounted({1, 2}, AnnotTrajectories, AnnotComparisons)
    /\ AppInit
    /\ RadarIdle
    /\ HeadshotIdle
    /\ SelectionIdle

NextAnnotations ==
    \/ RenderCareerChartV1
    \/ RenderCareerChart

\* Both versions of CareerChart over annotated trajectories
SpecAnnotations == InitAnnotations /\ [][NextAnnotations]_vars

InitHeadshot == HeadshotIdle /\ AppInit /\ RadarIdle /\ ChartIdle /\ SelectionIdle

NextHeadshot ==
    \/ \E id \in PlayerIds \cup {NoPlayer} : ProfileCardSetPlayer(id)
    \/ ProfileCardOnError
    \/ \E id \in PlayerIds : SimilarListMount(id)
    \/ SimilarImgOnError
    \/ \E id \in PlayerIds : LegendTreeRender(id)
    \/ LegendTreeUnmount
    \/ LegendImgOnError

\* The headshot images under any order of player changes and load errors
SpecHeadshot == InitHeadshot /\ [][NextHeadshot]_vars

InitSelection ==
    /\ AppInit
    /\ RadarIdle
    /\ ChartIdle
    /\ HeadshotIdle
    /\ players = <<>>
    /\ playersResponse \in PlayerLists
    /\ playersSettled = FALSE
    /\ seasonFilter = NoFilter
    /\ currentFilter = "all"
    /\ selectionPending = FALSE
    /\ effectOutcome = "none"

NextSelection ==
    \/ PlayersLoaded
    \/ PlayersRejected
    \/ \E v \in SeasonOptions \cup {NoFilter} : SetSeasonFilter(v)
    \/ \E v \in {"all", "yes", "no"} : SetCurrentFilter(v)
    \/ \E id \in Offered : SelectorChange(id)
    \/ SelectionEffect

\* App's selection under any order of list load, filter changes and picks
SpecSelection == InitSelection /\ [][NextSelection]_vars

----------------------------------------------------------------------------
(* Properties of the radar components *)

RadarChartDrawn ==
    radarRendered /\ radarComponent = "RadarChart" /\ Len(radarSeries) > 0

SpiderDrawn ==
    radarRendered /\ radarComponent = "CountingGeometrySpider" /\ Len(radarSeries) > 0

InUnitInterval(v) == v.tag = "num" /\ 0 <= v.n /\ v.n <= v.d

IsZero(v) == v.tag = "num" /\ v.n = 0

\* The series whose value on axis k is present
PresentOn(k) == {i \in DOMAIN radarSeries : Present(radarSeries[i][k])}

\* m holds the largest present value of axis k
AttainsMax(m, k) ==
    /\ m \in PresentOn(k)
    /\ \A j \in PresentOn(k) : Le(radarSeries[j][k], radarSeries[m][k])

\* v = a / b for finite numbers with b # 0
IsQuotient(v, a, b) == v.tag = "num" /\ v.n * a.d * b.n = a.n * b.d * v.d

\* C1: in both radar components, for every series and every axis, the value
\* that scales the vertex radius lies in [0,1], whatever the raw input
\* (above the axis maximum, negative, all present values negative).
C1_RadiusScaleInUnitInterval ==
    radarRendered =>
        \A i \in DOMAIN radarVals : \A k \in DOMAIN radarVals[i] :
            InUnitInterval(radarVals[i][k])

\* C6: in RadarChart an axis whose value is 0 or absent in every series gets
\* domain 1, never 0, and every series is normalized to 0 on it; no division
\* by zero happens for any combination of absent, zero and non-zero values
\* (every domain is a non-zero number and every normalized value is finite).
C6_ZeroDomainSafe ==
    RadarChartDrawn =>
        \A k \in AxisKeys(RadarAxes) :
            /\ radarMax[k].tag = "num" /\ radarMax[k].n # 0
            /\ \A i \in DOMAIN radarSeries : radarVals[i][k].tag = "num"
            /\ (\A i \in DOMAIN radarSeries :
                    ~Present(radarSeries[i][k]) \/ IsZero(radarSeries[i][k]))
                => /\ radarMax[k] = Whole(1)
                   /\ \A i \in DOMAIN radarSeries : radarVals[i][k] = Whole(0)

\* An axis holding both a zero and an absent value and nothing else
C6_Witness ==
    /\ RadarChartDrawn
    /\ \E k \in AxisKeys(RadarAxes) :
        /\ \E i \in DOMAIN radarSeries : IsZero(radarSeries[i][k])
        /\ \E i \in DOMAIN radarSeries : ~Present(radarSeries[i][k])
        /\ \A i \in DOMAIN radarSeries :
                ~Present(radarSeries[i][k]) \/ IsZero(radarSeries[i][k])
        /\ radarMax[k] = Whole(1)

\* C7: in RadarChart the per-axis maximum is taken over the present values
\* only (an absent value is not counted as 0), and a series whose own value
\* is absent is plotted at 0, the chart center.
C7_AbsentExcludedFromMax ==
    RadarChartDrawn =>
        \A k \in AxisKeys(RadarAxes) :
            /\ \A m \in DOMAIN radarSeries :
                    AttainsMax(m, k) =>
                        radarMax[k] = IF IsZero(radarSeries[m][k]) THEN Whole(1)
                                      ELSE radarSeries[m][k]
            /\ \A i \in DOMAIN radarSeries :
                    i \notin PresentOn(k) => radarVals[i][k] = Whole(0)

\* An axis with an absent value whose present values are all negative: its
\* maximum is negative, where counting the absent value as 0 would give 0.
C7_Witness ==
    /\ RadarChartDrawn
    /\ \E k \in AxisKeys(RadarAxes) :
        /\ PresentOn(k) # {} /\ PresentOn(k) # DOMAIN radarSeries
        /\ \A i \in PresentOn(k) : radarSeries[i][k].n < 0
        /\ radarMax[k].n < 0
        /\ \A i \in DOMAIN radarSeries \ PresentOn(k) : radarVals[i][k] = Whole(0)

\* C8 as stated: in RadarChart, for non-negative raw values the normalized
\* value is raw / (maximum present value of the axis), so a series attaining
\* the axis maximum gets exactly 1.
C8_AsStated ==
    RadarChartDrawn =>
        \A k \in AxisKeys(RadarAxes) : \A m \in DOMAIN radarSeries :
            (AttainsMax(m, k) /\ radarSeries[m][k].n >= 0) =>
                /\ radarVals[m][k] = Whole(1)
                /\ \A i \in PresentOn(k) :
                        radarSeries[i][k].n >= 0 =>
                            /\ radarSeries[m][k].n # 0
                            /\ IsQuotient(radarVals[i][k], radarSeries[i][k],
                                          radarSeries[m][k])

\* C8 amended: for non-negative raw values the normalized value is
\* raw / (maximum present value of the axis) when that maximum is positive,
\* so a series attaining a positive maximum gets exactly 1; when the maximum
\* is 0 the divisor is 1 and the value is 0.  With {A:10,B:0,C:5,D:5} and
\* {A:5,B:10,C:0,D:5} the columns (10,5), (0,10), (5,0), (5,5) normalize to
\* (1,1/2), (0,1), (1,0), (1,1).
C8_NormalizedByAxisMax ==
    RadarChartDrawn =>
        \A k \in AxisKeys(RadarAxes) : \A m \in DOMAIN radarSeries :
            (AttainsMax(m, k) /\ radarSeries[m][k].n >= 0) =>
                /\ radarVals[m][k] =
                        IF radarSeries[m][k].n > 0 THEN Whole(1) ELSE Whole(0)
                /\ \A i \in PresentOn(k) :
                        radarSeries[i][k].n >= 0 =>
                            IF radarSeries[m][k].n > 0
                            THEN IsQuotient(radarVals[i][k], radarSeries[i][k],
                                            radarSeries[m][k])
                            ELSE radarVals[i][k] = Whole(0)

\* The first two axes of the example: series {10, 0} and {5, 10} normalize
\* to {1, 0} and {1/2, 1}.
C8_Witness ==
    /\ RadarChartDrawn
    /\ Len(radarSeries) = 2
    /\ radarSeries[1].pts_per_game = Whole(10) /\ radarSeries[1].value_score = Whole(0)
    /\ radarSeries[2].pts_per_game = Whole(5) /\ radarSeries[2].value_score = Whole(10)
    /\ radarVals[1].pts_per_game = Whole(1) /\ radarVals[1].value_score = Whole(0)
    /\ radarVals[2].pts_per_game = Num(1, 2) /\ radarVals[2].value_score = Whole(1)

\* What a pre-normalized attribute is plotted as, read off the attribute
\* alone: a number clamped to [0,1]; Number() turns true into 1; anything
\* else (missing, null, not parsable) is 0.
ClampedOwn(x) ==
    CASE x.tag = "num" -> IF x.n < 0 THEN Whole(0)
                          ELSE IF x.n > x.d THEN Whole(1) ELSE x
      [] x.tag = "bool" -> Whole(1)
      [] OTHER -> Whole(0)

\* C9 as stated: in CountingGeometrySpider each plotted value is the input
\* attribute clamped to [0,1] and nothing else (no per-axis maximum, no
\* dependence on other series); a missing or non-numeric attribute is
\* plotted as 0.
C9_AsStated ==
    SpiderDrawn =>
        \A i \in DOMAIN radarSeries : \A k \in AxisKeys(SpiderAxes) :
            radarVals[i][k] =
                IF radarSeries[i][k].tag = "num" THEN ClampedOwn(radarSeries[i][k])
                ELSE Whole(0)

\* C9 amended: each plotted value is Number(attribute), with NaN replaced by
\* 0, clamped to [0,1] and nothing else, so it depends on the series' own
\* attribute only; a missing attribute or one that Number() cannot convert
\* is plotted as 0, while the boolean true converts to 1.
C9_ClampOnly ==
    SpiderDrawn =>
        \A i \in DOMAIN radarSeries : \A k \in AxisKeys(SpiderAxes) :
            radarVals[i][k] = ClampedOwn(radarSeries[i][k])

\* Two series on one axis, 3/2 and 1/2: plotted at 1 and 1/2 (scaling by the
\* axis maximum would give 1 and 1/3), next to a missing attribute at 0.
C9_Witness ==
    /\ SpiderDrawn
    /\ Len(radarSeries) = 2
    /\ radarSeries[1].efficiency = Num(3, 2) /\ radarSeries[1].points = Undefined
    /\ radarSeries[2].efficiency = Num(1, 2) /\ radarSeries[2].points = NonNumeric
    /\ radarVals[1].efficiency = Whole(1) /\ radarVals[1].points = Whole(0)
    /\ radarVals[2].efficiency = Num(1, 2) /\ radarVals[2].points = Whole(0)

----------------------------------------------------------------------------
(* Properties of App's data fetching *)

\* Every request has been answered and no effect is waiting to run
AllSettled == inflight = {} /\ ~effectPending

\* C2: when the selection changes from A to B while A's fetches are in
\* flight, A's results are discarded: for every arrival order, once all
\* fetches have settled (none of them rejected), the trajectory, comps,
\* label, projection, forecast, counting-geometry and radar state all hold
\* the data of the selected player B.
C2_StaleResultsDiscarded ==
    (AllSettled /\ selected # NoPlayer /\ ~anyRejected) =>
        /\ trajectory = selected
        /\ comps = selected
        /\ label = selected
        /\ projection = selected
        /\ forecast = selected
        /\ countingGeometry = selected
        /\ radar = selected

\* C3: at every render in which the chart components receive non-empty
\* data, the trajectory, forecast, counting-geometry and radar data passed
\* to them all belong to the currently selected player.
C3_RenderedDataOfSelected ==
    \A data \in {trajectory, forecast, countingGeometry, radar} :
        data # NoData => data = selected

\* The requests issued by the latest run of the fetch effect, for the
\* player selected now
CurrentRequests == {r \in inflight : r.id = selected /\ r.seq = issued - 1}

\* C22: when a fetch for the selected player fails, the state feeding the
\* visual of that fetch holds no data of another player afterwards: the
\* trajectory chart, the counting-geometry spider and the radar show their
\* empty state or data of the selected player, never geometry of a player
\* selected before.
C22_FailedFetchShowsEmpty ==
    [][\A r \in CurrentRequests :
          /\ MainRejected(r) => trajectory' \in {NoData, selected}
          /\ CountingRejected(r) => countingGeometry' \in {NoData, selected}
          /\ RadarRejected(r) => radar' \in {NoData, selected}]_vars

\* C28: the loading flag is true whenever the main batch (trajectory,
\* comps, label, projection, forecast) of the currently selected player is
\* still in flight; it becomes false only once that batch has settled, also
\* when an earlier selection's batch settles first.
C28_LoadingTracksCurrentBatch ==
    (\E r \in CurrentRequests : r.kind = "main") => loading

----------------------------------------------------------------------------
(* Properties of CareerChart *)

ChartDrawn == chartRendered /\ ~chartEmpty

\* The i-th smallest element of a set of integers
Kth(S, i) == CHOOSE k \in S : Cardinality({j \in S : j <= k}) = i

LeastOf(S) == CHOOSE m \in S : \A x \in S : m <= x
GreatestOf(S) == CHOOSE m \in S : \A x \in S : x <= m

\* Where the pen is after command k: the command's last coordinate pair
PenAfter(path, k) == path[k].pts[Len(path[k].pts)]

\* The commands that open and that close a fitted segment: a cubic does
\* both; in the first version a segment is a Q followed by a T.
SegmentOpeners(path) == {k \in 2..Len(path) : path[k].op \in {"C", "Q"}}
SegmentClosers(path) == {k \in 2..Len(path) : path[k].op \in {"C", "T"}}

\* path starts at pts[1] and is Len(pts) - 1 consecutive segments, the i-th
\* from pts[i] to pts[i + 1]
PassesThroughInOrder(path, pts) ==
    LET n == Len(pts)
        open(i) == Kth(SegmentOpeners(path), i)
        close(i) == Kth(SegmentClosers(path), i)
    IN  /\ path[1] = Cmd("M", <<pts[1]>>)
        /\ Cardinality(SegmentOpeners(path)) = n - 1
        /\ Cardinality(SegmentClosers(path)) = n - 1
        /\ open(1) = 2
        /\ close(n - 1) = Len(path)
        /\ \A i \in 1..(n - 1) :
            /\ open(i) <= close(i)
            /\ i < n - 1 => open(i + 1) = close(i) + 1
            /\ PenAfter(path, open(i) - 1) = pts[i]
            /\ PenAfter(path, close(i)) = pts[i + 1]

\* C4: every fitted path over n >= 2 points starts at point 0 and consists
\* of exactly n - 1 consecutive segments, segment i starting at input point
\* i and ending exactly at input point i + 1 (primary and comparison path,
\* both versions of buildSmoothPath).
C4_PathInterpolates ==
    ChartDrawn =>
        /\ Len(chartCoords) >= 2 => PassesThroughInOrder(chartPath, chartCoords)
        /\ Len(chartCompCoords) >= 2 =>
                PassesThroughInOrder(chartCompPath, chartCompCoords)

\* A cubic path over three distinct points, next to a comparison path
C4_Witness ==
    /\ ChartDrawn
    /\ chartVersion = 2
    /\ Len(chartCoords) = 3
    /\ Cardinality({chartCoords[i] : i \in 1..3}) = 3
    /\ Len(chartPath) = 3
    /\ Len(chartCompPath) = 2

\* The seasons that enter the x domain: those of the primary and of the
\* comparison entries with a present value
DomainSeasons ==
    {chartTrajectory[i].season :
        i \in {j \in DOMAIN chartTrajectory : Present(chartTrajectory[j].value_score)}}
    \cup
    {chartComparison[i].season :
        i \in {j \in DOMAIN chartComparison : Present(chartComparison[j].value_score)}}

\* C5: for any season domain with minSeason < maxSeason (union of primary
\* and comparison seasons) the last tick of buildTicks is maxSeason, on or
\* off the step grid.
C5_LastTickIsMaxSeason ==
    (ChartDrawn /\ chartVersion = 2
        /\ LeastOf(DomainSeasons) < GreatestOf(DomainSeasons)) =>
            chartTicks[Len(chartTicks)] = GreatestOf(DomainSeasons)

\* A domain whose maximum comes from the comparison series and lies off the
\* step grid: the last gap differs from the step
C5_Witness ==
    /\ ChartDrawn
    /\ chartVersion = 2
    /\ Len(chartTicks) >= 3
    /\ chartTicks[2] - chartTicks[1] = 2
    /\ chartTicks[Len(chartTicks)] - chartTicks[Len(chartTicks) - 1] = 1
    /\ \A i \in DOMAIN chartTrajectory :
            chartTrajectory[i].season < chartTicks[Len(chartTicks)]
    /\ chartComparison # <<>>
    /\ chartTicks[Len(chartTicks)] = chartComparison[1].season

\* The indices of the entries with a present value_score
PresentIn(entries) == {i \in DOMAIN entries : Present(entries[i].value_score)}

\* The present scores of both series
DomainScores ==
    {chartTrajectory[i].value_score : i \in PresentIn(chartTrajectory)}
    \cup {chartComparison[i].value_score : i \in PresentIn(chartComparison)}

LeastScore == CHOOSE m \in DomainScores : \A v \in DomainScores : Le(m, v)
GreatestScore == CHOOSE m \in DomainScores : \A v \in DomainScores : Le(v, m)

\* The scales as functions of the present entries alone
XOfPresent(season) ==
    IF chartVersion = 1
    THEN LET kept == PresentIn(chartTrajectory)
         IN  XScaleV1(Whole(season),
                      <<Whole(chartTrajectory[LeastOf(kept)].season),
                        Whole(chartTrajectory[GreatestOf(kept)].season)>>)
    ELSE XScale(Whole(season), Whole(LeastOf(DomainSeasons)),
                Whole(GreatestOf(DomainSeasons)))

YOfPresent(score) ==
    IF chartVersion = 1
    THEN YScaleV1(score, LeastScore, GreatestScore)
    ELSE YScale(score, LeastScore, GreatestScore)

\* markers and coords hold exactly the present entries of entries, in input
\* order, each at the position the scales give its own season and value
ExactlyThePresent(entries, markers, coords) ==
    /\ Len(markers) = Cardinality(PresentIn(entries))
    /\ Len(coords) = Cardinality(PresentIn(entries))
    /\ \A k \in DOMAIN markers :
        LET e == entries[Kth(PresentIn(entries), k)]
        IN  /\ markers[k].season = e.season
            /\ markers[k].cx = XOfPresent(e.season)
            /\ markers[k].cy = YOfPresent(e.value_score)
            /\ coords[k] = <<markers[k].cx, markers[k].cy>>

\* C10: entries whose value_score is null or undefined contribute neither a
\* path vertex nor a marker: markers and path vertices are exactly the
\* entries with a present value, in input order, placed by scales that the
\* absent entries do not enter, and the path joins the neighbours of a
\* missing season directly.
C10_AbsentScoresExcluded ==
    chartRendered =>
        /\ chartEmpty <=> PresentIn(chartTrajectory) = {}
        /\ ~chartEmpty =>
            /\ ExactlyThePresent(chartTrajectory, chartMarkers, chartCoords)
            /\ ExactlyThePresent(chartComparison, chartCompMarkers, chartCompCoords)
            /\ Len(chartPath) = IF Len(chartCoords) < 2 THEN 0
                                ELSE IF chartVersion = 1 THEN 2 * Len(chartCoords) - 1
                                ELSE Len(chartCoords)
            /\ \A k \in DOMAIN chartPath :
                    \E j \in DOMAIN chartCoords : PenAfter(chartPath, k) = chartCoords[j]
                    \/ (chartVersion = 1 /\ chartPath[k].op = "Q")

\* [(2020, 18.2), (2021, null), (2022, 24.5)]: two markers, the first and
\* the third season, and one segment from the first to the second marker
C10_Witness ==
    /\ ChartDrawn
    /\ chartVersion = 2
    /\ chartComparison = <<>>
    /\ chartTrajectory = <<Entry(FirstSeason, Num(91, 5)), Entry(FirstSeason + 1, Null),
                           Entry(FirstSeason + 2, Num(49, 2))>>
    /\ Len(chartMarkers) = 2
    /\ chartMarkers[1].season = FirstSeason
    /\ chartMarkers[2].season = FirstSeason + 2
    /\ Len(chartPath) = 2
    /\ PenAfter(chartPath, 1) = <<chartMarkers[1].cx, chartMarkers[1].cy>>
    /\ PenAfter(chartPath, 2) = <<chartMarkers[2].cx, chartMarkers[2].cy>>

\* p lies on the line through a and b, between a and b: p = a + t (b - a)
\* for some t in [0,1]
OnSegment(p, a, b) ==
    LET dx == Sub(b[1], a[1])
        dy == Sub(b[2], a[2])
        px == Sub(p[1], a[1])
        py == Sub(p[2], a[2])
        t == IF dx.n # 0 THEN Div(px, dx)
             ELSE IF dy.n # 0 THEN Div(py, dy) ELSE Whole(0)
    IN  /\ t.tag = "num"
        /\ Le(Whole(0), t) /\ Le(t, Whole(1))
        /\ px = Mul(t, dx)
        /\ py = Mul(t, dy)

\* The control point a T command implies: the control point of the
\* quadratic before it, reflected about the point where that one ended
ImpliedControl(path, k) ==
    LET at == PenAfter(path, k - 1)
        c == path[k - 1].pts[1]
    IN  <<Sub(Add(at[1], at[1]), c[1]), Sub(Add(at[2], at[2]), c[2])>>

\* path runs from pts[1] to pts[2] and every point it is built from lies on
\* the segment between them
StraightBetween(path, pts) ==
    /\ Len(path) >= 2
    /\ PenAfter(path, 1) = pts[1]
    /\ PenAfter(path, Len(path)) = pts[2]
    /\ \A k \in DOMAIN path :
        /\ \A j \in DOMAIN path[k].pts : OnSegment(path[k].pts[j], pts[1], pts[2])
        /\ path[k].op = "T" => OnSegment(ImpliedControl(path, k), pts[1], pts[2])

\* C11: for an input of exactly 2 points the fitted path is the straight
\* segment between them: every point of the emitted path, control points
\* included, lies on the line through the two points and between them
\* (primary and comparison path, both versions of buildSmoothPath).
C11_TwoPointsStraight ==
    ChartDrawn =>
        /\ Len(chartCoords) = 2 => StraightBetween(chartPath, chartCoords)
        /\ Len(chartCompCoords) = 2 => StraightBetween(chartCompPath, chartCompCoords)

\* Two points that differ in x and in y, joined by one cubic whose control
\* points are neither of them
C11_Witness ==
    /\ ChartDrawn
    /\ chartVersion = 2
    /\ Len(chartCoords) = 2
    /\ chartCoords[1][1] # chartCoords[2][1]
    /\ chartCoords[1][2] # chartCoords[2][2]
    /\ Len(chartPath) = 2
    /\ chartPath[2].op = "C"
    /\ chartPath[2].pts[1] \notin {chartCoords[1], chartCoords[2]}
    /\ chartPath[2].pts[2] \notin {chartCoords[1], chartCoords[2]}

\* C12: for an input of 0 or 1 points the fitted path is empty: no path
\* command is emitted, for the primary and for the comparison series.
C12_FewerThanTwoEmpty ==
    chartRendered =>
        /\ Len(chartCoords) < 2 => chartPath = <<>>
        /\ Len(chartCompCoords) < 2 => chartCompPath = <<>>

\* One primary point next to one comparison point, each with its marker
\* and neither with a path
C12_Witness ==
    /\ ChartDrawn
    /\ chartVersion = 2
    /\ Len(chartCoords) = 1
    /\ Len(chartCompCoords) = 1
    /\ Len(chartMarkers) = 1
    /\ Len(chartCompMarkers) = 1
    /\ chartPath = <<>>
    /\ chartCompPath = <<>>

\* The lowest y of the plot area (its baseline): height - bottom padding
Baseline == IF chartVersion = 1 THEN Whole(240 - 20) ELSE Whole(270 - 40)

\* The highest y of the plot area: top padding
TopEdge == IF chartVersion = 1 THEN Whole(20) ELSE Whole(22)

AnnotatedMarkers == {i \in DOMAIN chartMarkers : chartMarkers[i].annotated}

\* C13: an annotated point gets its annotation above (y - 60) exactly when
\* y - 60 >= 10, and below (y + 40) otherwise; the choice is a function of
\* the point's own y (not of x, not of other annotations); a point without
\* annotation gets none.
C13_AnnotationPlacement ==
    ChartDrawn =>
        \A i \in DOMAIN chartMarkers :
            LET m == chartMarkers[i]
                above == Sub(m.cy, Whole(60))
            IN  IF m.annotated
                THEN /\ m.useBelow <=> ~Le(Whole(10), above)
                     /\ m.yPos = IF Le(Whole(10), above) THEN above
                                 ELSE Add(m.cy, Whole(40))
                ELSE m.yPos = Null

\* Three annotated points at different x: one whose above position is
\* exactly the guard (kept above), one above it (flipped below), one far
\* from the top (kept above)
C13_Witness ==
    /\ ChartDrawn
    /\ Len(chartMarkers) = 3
    /\ AnnotatedMarkers = {1, 2, 3}
    /\ \E i, j, k \in 1..3 :
        /\ chartMarkers[i].cy = Whole(70)
        /\ chartMarkers[i].yPos = Whole(10)
        /\ Lt(chartMarkers[j].cy, Whole(70))
        /\ chartMarkers[j].yPos = Add(chartMarkers[j].cy, Whole(40))
        /\ Lt(Whole(200), chartMarkers[k].cy)
        /\ chartMarkers[k].yPos = Sub(chartMarkers[k].cy, Whole(60))

\* C14: the placed annotation is never clipped vertically: for every
\* annotated point the placed y is at least the top guard (10) and at most
\* the baseline of the plot (height - bottom padding), on either side.
C14_AnnotationInFrame ==
    ChartDrawn =>
        \A i \in AnnotatedMarkers :
            /\ chartMarkers[i].yPos.tag = "num"
            /\ Le(Whole(10), chartMarkers[i].yPos)
            /\ Le(chartMarkers[i].yPos, Baseline)

\* The highest point of a chart (padded maximum, y < 70) annotated and
\* flipped below, next to the annotated lowest point placed above
C14_Witness ==
    /\ ChartDrawn
    /\ chartVersion = 2
    /\ chartComparison = <<>>
    /\ \E i, j \in AnnotatedMarkers :
        /\ chartTrajectory[i].value_score = Whole(130)
        /\ chartTrajectory[j].value_score = Whole(0)
        /\ chartMarkers[i].useBelow
        /\ Lt(Sub(chartMarkers[i].cy, Whole(60)), Whole(0))
        /\ ~chartMarkers[j].useBelow
        /\ Lt(chartMarkers[j].yPos, Baseline)

\* The left and right end of the plot area
LeftEdge == IF chartVersion = 1 THEN Whole(20) ELSE Whole(24)
RightEdge == IF chartVersion = 1 THEN Whole(640 - 20) ELSE Whole(640 - 22)

\* The entry drawn as the k-th marker of a series
MarkedEntry(entries, k) == entries[Kth(PresentIn(entries), k)]

\* The padding of the vertical domain as the claim states it
StatedPad ==
    IF GreatestScore = LeastScore THEN Whole(1)
    ELSE Div(Sub(GreatestScore, LeastScore), Whole(10))

\* Where a value v lies under the stated vertical domain
\* [minS - p, maxS + p] mapped onto [Baseline, TopEdge]
StatedY(v) ==
    LET lo == Sub(LeastScore, StatedPad)
        hi == Add(GreatestScore, StatedPad)
    IN  Sub(Baseline, Mul(Div(Sub(v, lo), Sub(hi, lo)), Sub(Baseline, TopEdge)))

StrictlyInsideVertically(y) == y.tag = "num" /\ Lt(TopEdge, y) /\ Lt(y, Baseline)

\* C16: the vertical domain is [minS - p, maxS + p], minS and maxS the least
\* and greatest present value over the primary and comparison series, p
\* 10% of (maxS - minS) or 1 when they are equal; so every point, those
\* holding minS and maxS included, lies strictly inside the plot area.
C16_PaddedVerticalDomain ==
    ChartDrawn =>
        /\ \A k \in DOMAIN chartMarkers :
            /\ chartMarkers[k].cy = StatedY(MarkedEntry(chartTrajectory, k).value_score)
            /\ StrictlyInsideVertically(chartMarkers[k].cy)
        /\ \A k \in DOMAIN chartCompMarkers :
            /\ chartCompMarkers[k].cy = StatedY(MarkedEntry(chartComparison, k).value_score)
            /\ StrictlyInsideVertically(chartCompMarkers[k].cy)

\* A comparison series holding both extremes (10 and 30) around the primary
\* values: its points sit a twelfth of the plot height inside the edges
C16_Witness ==
    /\ ChartDrawn
    /\ chartVersion = 2
    /\ LeastScore = Whole(10)
    /\ GreatestScore = Whole(30)
    /\ Len(chartMarkers) >= 2
    /\ Len(chartCompMarkers) = 2
    /\ chartCompMarkers[1].cy = Num(638, 3)
    /\ chartCompMarkers[2].cy = Num(118, 3)

\* Where a season lies under the horizontal domain [min, max] of the
\* seasons of both series
StatedX(season) ==
    LET lo == LeastOf(DomainSeasons)
        hi == GreatestOf(DomainSeasons)
    IN  Add(LeftEdge, Mul(Num(season - lo, IF hi = lo THEN 1 ELSE hi - lo),
                          Sub(RightEdge, LeftEdge)))

\* The markers of both series
AllMarkers ==
    {chartMarkers[k] : k \in DOMAIN chartMarkers}
        \cup {chartCompMarkers[k] : k \in DOMAIN chartCompMarkers}

\* C17: the horizontal domain is [min, max] over the seasons of the primary
\* and of the comparison series together (present values only) and one
\* xScale / yScale pair serves both series: a season present in both maps
\* to the same x, equal values map to the same y, and the earliest / latest
\* season of either series maps to the left / right plot edge.
C17_SharedHorizontalDomain ==
    (ChartDrawn /\ chartVersion = 2) =>
        /\ \A m \in AllMarkers :
            /\ m.cx = StatedX(m.season)
            /\ m.season = LeastOf(DomainSeasons) => m.cx = LeftEdge
            /\ (m.season = GreatestOf(DomainSeasons)
                    /\ LeastOf(DomainSeasons) < GreatestOf(DomainSeasons))
                => m.cx = RightEdge
        /\ \A k \in DOMAIN chartMarkers : \A j \in DOMAIN chartCompMarkers :
            /\ chartMarkers[k].season = chartCompMarkers[j].season
                => chartMarkers[k].cx = chartCompMarkers[j].cx
            /\ MarkedEntry(chartTrajectory, k).value_score
                    = MarkedEntry(chartComparison, j).value_score
                => chartMarkers[k].cy = chartCompMarkers[j].cy

\* The earliest season comes from the comparison series only and the latest
\* from the primary series only, and the two share a season
C17_Witness ==
    /\ ChartDrawn
    /\ chartVersion = 2
    /\ Len(chartCompMarkers) = 2
    /\ chartCompMarkers[1].season = FirstSeason - 1
    /\ chartCompMarkers[1].cx = Whole(24)
    /\ \A k \in DOMAIN chartMarkers : chartMarkers[k].cx # Whole(24)
    /\ \E k \in DOMAIN chartMarkers :
        /\ chartMarkers[k].season = FirstSeason + 2
        /\ chartMarkers[k].cx = Whole(618)
    /\ \E k \in DOMAIN chartMarkers :
        /\ chartMarkers[k].season = chartCompMarkers[2].season
        /\ chartMarkers[k].cx = chartCompMarkers[2].cx

\* The seasons that set the horizontal domain: in the first version the
\* first and the last kept season, in version 2 all of them
ScaleSeasons ==
    IF chartVersion = 1
    THEN {chartTrajectory[LeastOf(PresentIn(chartTrajectory))].season,
          chartTrajectory[GreatestOf(PresentIn(chartTrajectory))].season}
    ELSE DomainSeasons

\* C18: with a degenerate domain nothing divides by zero (every coordinate
\* is a finite number) and the point is placed at a fixed position: when
\* all seasons are equal every point maps to the left plot edge; when all
\* values are equal every point maps to the vertical midpoint of the plot.
C18_DegenerateDomain ==
    ChartDrawn =>
        /\ \A m \in AllMarkers : m.cx.tag = "num" /\ m.cy.tag = "num"
        /\ Cardinality(ScaleSeasons) = 1 =>
                \A m \in AllMarkers :
                    m.season \in ScaleSeasons => m.cx = LeftEdge
        /\ Cardinality(DomainScores) = 1 =>
                \A m \in AllMarkers :
                    m.cy = Div(Add(TopEdge, Baseline), Whole(2))

\* Two entries of the same season and value: both at the left edge and at
\* mid-height
C18_Witness ==
    /\ ChartDrawn
    /\ chartVersion = 2
    /\ Len(chartMarkers) = 2
    /\ chartCompMarkers = <<>>
    /\ Cardinality(DomainSeasons) = 1
    /\ Cardinality(DomainScores) = 1
    /\ \A k \in 1..2 :
            chartMarkers[k].cx = Whole(24) /\ chartMarkers[k].cy = Whole(126)

----------------------------------------------------------------------------
(* Properties of the radar polygons *)

RadarDrawn == RadarChartDrawn \/ SpiderDrawn

\* The axes, center and radius of the mounted component
DrawnAxes == IF radarComponent = "RadarChart" THEN RadarAxes ELSE SpiderAxes
Center == IF radarComponent = "RadarChart" THEN Whole(180) ELSE Whole(190)
Radius == IF radarComponent = "RadarChart" THEN Whole(150) ELSE Whole(156)

\* The colour the component gives index 0, and the number of colours the
\* later indices cycle through
FirstColour == IF radarComponent = "RadarChart" THEN RadarColors[1] ELSE "#38bdf8"
CycleLength ==
    IF radarComponent = "RadarChart" THEN Len(RadarColors) ELSE Len(SpiderPalette)

\* C15: in every radar component that colours its series the colour is a
\* function of the index alone: index 0 always gets the reserved highlight
\* colour, that colour differs from the colour of every index >= 1, and the
\* indices >= 1 cycle through the palette modulo its length.
C15_ColourByIndex ==
    RadarDrawn =>
        /\ radarColors[1] = FirstColour
        /\ \A i \in DOMAIN radarColors :
            /\ i > 1 => radarColors[i] # radarColors[1]
            /\ (i > 1 /\ i + CycleLength \in DOMAIN radarColors)
                    => radarColors[i + CycleLength] = radarColors[i]

\* The k-th vertex of the polygon of series i (k counts from 1)
VertexOf(i, k) == radarPaths[i][k].pts[1]

\* C19: axis 0 points straight up and the axes proceed clockwise: a value v
\* in [0,1] puts the vertex of axis k of n at distance v * radius from the
\* center in the direction k/n of a turn clockwise from the top; so the
\* vertex of axis 0 is (center, center - v * radius) and the vertex of an
\* axis a quarter turn on (axis 1 of 4, axis 2 of 8) is
\* (center + v * radius, center).
C19_AxisDirections ==
    RadarDrawn =>
        \A i \in DOMAIN radarSeries : \A k \in DOMAIN DrawnAxes :
            LET n == Len(DrawnAxes)
                v == radarVals[i][DrawnAxes[k]]
                reach == Mul(Radius, v)
            IN  InUnitInterval(v) =>
                    /\ VertexOf(i, k).turn = Num(4 * (k - 1) - n, 4 * n)
                    /\ VertexOf(i, k).dist = reach
                    /\ k = 1 =>
                        /\ VertexOf(i, k).x = Center
                        /\ VertexOf(i, k).y = Sub(Center, reach)
                    /\ 4 * (k - 1) = n =>
                        /\ VertexOf(i, k).x = Add(Center, reach)
                        /\ VertexOf(i, k).y = Center

\* CountingGeometrySpider: a series with 1/2 on axis 0 and 1 on axis 2 has
\* its vertices at (190, 112) and (346, 190); the vertex of axis 1, an
\* eighth of a turn from the top, lies between them
C19_Witness ==
    /\ SpiderDrawn
    /\ radarVals[1].efficiency = Num(1, 2)
    /\ radarVals[1].points = Whole(1)
    /\ VertexOf(1, 1).x = Whole(190) /\ VertexOf(1, 1).y = Whole(112)
    /\ VertexOf(1, 3).x = Whole(346) /\ VertexOf(1, 3).y = Whole(190)
    /\ VertexOf(1, 2).turn = Num(-1, 8)
    /\ VertexOf(1, 2).dist = Whole(78)

\* Where the pen is after command k of a polygon path: Z returns it to the
\* point of the M that opened the polygon
PolygonPenAfter(path, k) ==
    IF path[k].op = "Z" THEN path[1].pts[1] ELSE path[k].pts[1]

\* C20: every series polygon has exactly one vertex per axis, in axis
\* order, and is closed: after its vertices the path returns to the first
\* vertex, which is the last point of the polygon.
C20_PolygonClosed ==
    RadarDrawn =>
        /\ DOMAIN radarPaths = DOMAIN radarSeries
        /\ \A i \in DOMAIN radarSeries :
            LET path == radarPaths[i]
                n == Len(DrawnAxes)
            IN  /\ Len(path) = n + 1
                /\ path[1].op = "M"
                /\ \A k \in 2..n : path[k].op = "L"
                /\ \A k \in 1..n :
                    /\ Len(path[k].pts) = 1
                    /\ path[k].pts[1].turn = Sub(Num(k - 1, n), Num(1, 4))
                    /\ path[k].pts[1].dist = Mul(Radius, radarVals[i][DrawnAxes[k]])
                /\ path[n + 1].op = "Z"
                /\ PolygonPenAfter(path, n + 1) = PolygonPenAfter(path, 1)

\* RadarChart with two series whose seven-cornered polygons differ
C20_Witness ==
    /\ RadarChartDrawn
    /\ Len(radarPaths) = 2
    /\ Len(radarPaths[1]) = 8
    /\ radarPaths[1] # radarPaths[2]
    /\ Cardinality({radarPaths[1][k].pts[1].dist : k \in 1..7}) >= 3
    /\ radarPaths[1][8].op = "Z"

\* a + (b - c) * 0.9 / 6, per coordinate
Ahead(a, b, c) ==
    <<Add(a[1], Div(Mul(Sub(b[1], c[1]), Num(9, 10)), Whole(6))),
      Add(a[2], Div(Mul(Sub(b[2], c[2]), Num(9, 10)), Whole(6)))>>

\* a - (b - c) * 0.9 / 6, per coordinate
Behind(a, b, c) ==
    <<Sub(a[1], Div(Mul(Sub(b[1], c[1]), Num(9, 10)), Whole(6))),
      Sub(a[2], Div(Mul(Sub(b[2], c[2]), Num(9, 10)), Whole(6)))>>

\* The control points the specification gives for a fit through pts:
\* segment i runs from pts[i] to pts[i + 1], and the neighbours before the
\* first and after the last point are those points themselves.
StatedControls(pts, path) ==
    LET n == Len(pts)
    IN  \A i \in 1..(n - 1) :
            LET before == IF i = 1 THEN 1 ELSE i - 1
                after == IF i + 2 > n THEN n ELSE i + 2
            IN  /\ path[i + 1].op = "C"
                /\ path[i + 1].pts[1] = Ahead(pts[i], pts[i + 1], pts[before])
                /\ path[i + 1].pts[2] = Behind(pts[i + 1], pts[after], pts[i])

\* C25: in the Catmull-Rom fit, segment i has the control points
\* c1 = P(i) + (P(i+1) - P(i-1)) * 0.9 / 6 and
\* c2 = P(i+1) - (P(i+2) - P(i)) * 0.9 / 6, with P(-1) read as P(0) and P(n)
\* as P(n-1), for the primary and for the comparison curve.
C25_ControlPoints ==
    (chartVersion = 2 /\ ChartDrawn) =>
        /\ Len(chartCoords) >= 2 =>
              /\ Len(chartPath) = Len(chartCoords)
              /\ StatedControls(chartCoords, chartPath)
        /\ Len(chartCompCoords) >= 2 =>
              /\ Len(chartCompPath) = Len(chartCompCoords)
              /\ StatedControls(chartCompCoords, chartCompPath)

\* Three primary points that are not collinear: the middle one is a peak,
\* so the first segment's second control point lies off the chord, and the
\* clamped ends are in use on both sides
C25_Witness ==
    /\ chartVersion = 2
    /\ ChartDrawn
    /\ Len(chartCoords) = 3
    /\ Lt(chartCoords[2][2], chartCoords[1][2])
    /\ Lt(chartCoords[2][2], chartCoords[3][2])
    /\ chartPath[2].pts[2] # chartCoords[2]
    /\ chartPath[2].pts[1] = Ahead(chartCoords[1], chartCoords[2], chartCoords[1])
    /\ chartPath[3].pts[2] = Behind(chartCoords[3], chartCoords[3], chartCoords[2])

\* max(1, ceil(span / 8)): the least positive integer whose eightfold
\* reaches span
StatedStep(span) == CHOOSE s \in 1..(span + 1) : 8 * s >= span /\ (s = 1 \/ 8 * (s - 1) < span)

\* C26: the tick list starts at minSeason, is strictly increasing, lies
\* within [minSeason, maxSeason], and its k-th tick is
\* minSeason + (k - 1) * step with step = max(1, ceil((maxSeason -
\* minSeason) / 8)), except for a final tick maxSeason; for minSeason =
\* maxSeason it is the single tick minSeason.
C26_TickList ==
    (chartVersion = 2 /\ ChartDrawn) =>
        LET lo == LeastOf(DomainSeasons)
            hi == GreatestOf(DomainSeasons)
            step == StatedStep(hi - lo)
            n == Len(chartTicks)
        IN  /\ n >= 1
            /\ chartTicks[1] = lo
            /\ \A k \in 1..(n - 1) : chartTicks[k] < chartTicks[k + 1]
            /\ \A k \in 1..n : lo <= chartTicks[k] /\ chartTicks[k] <= hi
            /\ \A k \in 1..n :
                  \/ chartTicks[k] = lo + (k - 1) * step
                  \/ k = n /\ chartTicks[k] = hi
            /\ lo = hi => chartTicks = <<lo>>

\* A domain of 13 years: step 2, six ticks on the grid and maxSeason
\* appended off it
C26_Witness ==
    /\ chartVersion = 2
    /\ ChartDrawn
    /\ GreatestOf(DomainSeasons) - LeastOf(DomainSeasons) = 13
    /\ Len(chartTicks) = 8
    /\ chartTicks[7] = LeastOf(DomainSeasons) + 12
    /\ chartTicks[8] = GreatestOf(DomainSeasons)

\* Some point of the sequence has a later season than its successor
OutOfOrder(points) ==
    \E i \in 1..(Len(points) - 1) : points[i].season > points[i + 1].season

\* C23: a point sequence whose seasons are not in ascending order is
\* rejected before any geometry is computed: a render of such a trajectory
\* computes no coordinates and emits no path.
C23_UnsortedRejected ==
    (chartRendered /\ OutOfOrder(PointsOf(chartTrajectory))) =>
        /\ chartCoords = <<>>
        /\ chartPath = <<>>

\* A point inside the plot area: x within the padded width, both ends
\* included, y strictly between the top edge and the baseline
InsidePlotArea(pt) ==
    /\ pt[1].tag = "num"
    /\ Le(LeftEdge, pt[1])
    /\ Le(pt[1], RightEdge)
    /\ StrictlyInsideVertically(pt[2])

\* C29: in the chart with comparison support, whenever the primary series
\* has a present value, every primary and every comparison point (the
\* points of the curves and the circles drawn) has x within
\* [left padding, width - right padding] and y strictly between the top
\* padding and height - bottom padding, sorted input or not.
C29_PointsInsidePlotArea ==
    (chartVersion = 2 /\ chartRendered /\ PresentIn(chartTrajectory) # {}) =>
        /\ ~chartEmpty
        /\ Len(chartCoords) = Cardinality(PresentIn(chartTrajectory))
        /\ Len(chartCompCoords) = Cardinality(PresentIn(chartComparison))
        /\ \A k \in DOMAIN chartCoords : InsidePlotArea(chartCoords[k])
        /\ \A k \in DOMAIN chartCompCoords : InsidePlotArea(chartCompCoords[k])
        /\ \A m \in AllMarkers : InsidePlotArea(<<m.cx, m.cy>>)

\* Primary seasons out of order next to a comparison series that widens
\* both domains: points on the left and on the right edge
C29_Witness ==
    /\ chartVersion = 2
    /\ ChartDrawn
    /\ OutOfOrder(PointsOf(chartTrajectory))
    /\ Len(chartCoords) = 3
    /\ Len(chartCompCoords) = 2
    /\ chartCompCoords[1][1] = Whole(24)
    /\ \E k \in DOMAIN chartCoords : chartCoords[k][1] = Whole(640 - 22)

----------------------------------------------------------------------------
(* Properties of the headshot images *)

IsPrefix(s, t) == Len(s) <= Len(t) /\ \A k \in 1..Len(s) : s[k] = t[k]

\* The candidate order the specification gives for each component
ProfileChain(id) == <<Url("primary", id), Url("alternate", id), Url("legacy", id), Fallback>>
ImgChain(id) == <<Url("primary", id), Url("alternate", id), Fallback>>

\* The ProfileCard part of C21, which the code keeps
ProfileChainInOrder ==
    playerId # NoPlayer => IsPrefix(profileLoads, ProfileChain(playerId))

\* C21: the sources an image is given are its candidates in the fixed order
\* (primary, alternate, legacy in ProfileCard, placeholder): every error
\* moves to the next candidate not yet tried, none is loaded twice, and an
\* error of the placeholder starts no further load.
C21_FixedChainTerminates ==
    /\ ProfileChainInOrder
    /\ similarImg # NoImg => IsPrefix(similarLoads, ImgChain(similarImg.playerId))
    /\ legendImg # NoImg => IsPrefix(legendLoads, ImgChain(legendImg.playerId))

----------------------------------------------------------------------------
(* Properties of the selection *)

FilteredIds == {FilteredPlayers[i].player_id : i \in DOMAIN FilteredPlayers}

\* C30: once the selection effect has run on a non-empty filtered list, the
\* selected id is in that list; the effect replaces a selection that is null
\* or filtered out by the first filtered player, never changes a selection
\* that is in the list, and leaves the selection alone when the list is
\* empty.
C30_SelectionFollowsFilter ==
    /\ []((~selectionPending /\ FilteredPlayers # <<>>) => selected \in FilteredIds)
    /\ [][selectionPending =>
            selected' = IF FilteredPlayers = <<>> \/ selected \in FilteredIds
                        THEN selected
                        ELSE FilteredPlayers[1].player_id]_vars

\* The first eligible player of the list, selected when the list arrived,
\* has been filtered out and the effect has put the first of the remaining
\* players in its place
C30_Witness ==
    /\ effectOutcome = "replaced"
    /\ Len(players) = 3
    /\ Eligible(players[1])
    /\ players[1].player_id \notin FilteredIds
    /\ Len(FilteredPlayers) = 2
    /\ selected = FilteredPlayers[1].player_id
    /\ selected # NoPlayer

============================================================================
